---- MODULE Spec2Model ----
(***************************************************************************)
(* Model of the console-subscriber Aggregator                              *)
(* (console-subscriber/src/aggregator.rs) and of the producer-side send    *)
(* path of the ConsoleLayer (console-subscriber/src/lib.rs).               *)
(*                                                                         *)
(* Several specifications are defined over the same definitions:           *)
(*   Spec        - the aggregator's run loop with producers, the wall      *)
(*                 clock, instrument clients and the RPC channel;          *)
(*   SpecPoll    - update_state applied to arbitrary sequences of events   *)
(*                 with arbitrary timestamps (the handler as a function);  *)
(*   SpecIdData  - the IdData API exercised on one table;                  *)
(*   SpecLife, SpecAttr - update_state on lifecycle / attribute events;    *)
(*   SpecFlush   - the flush signal between producers and the run loop;    *)
(*   SpecRun, SpecStop, SpecDetails - the run loop with control commands;  *)
(*   SpecOrder   - per-producer ordering of the event channel;             *)
(*   SpecLayer   - the ConsoleLayer span callbacks feeding the channel.    *)
(***************************************************************************)
EXTENDS Integers, Sequences, FiniteSets, Bags, TLC

(* ------------------------------ bounds --------------------------------- *)

\* Span ids drawn by the producers of Spec and by SpecIdData: 1..MaxId.
MaxId == 1

\* The wall clock of Spec runs over 0..MaxTime.
MaxTime == 2

\* Number of send() calls the producers of Spec make in one behaviour.
MaxSends == 2

\* Number of instrument subscriptions requested in one behaviour of Spec.
MaxWatch == 2

\* Timestamps of the events of SpecPoll: 0..MaxAt.
MaxAt == 5

\* Number of events applied in one behaviour of SpecPoll.
MaxEvents == 5

\* Number of API calls in one behaviour of SpecIdData.
MaxCalls == 5

\* Number of events applied in one behaviour of SpecLife.
MaxLifeEvents == 6

\* Number of producer threads of SpecFlush.
MaxProducers == 2

\* Number of send() calls the producers of SpecFlush make in one behaviour.
MaxFlushSends == 4

\* SpecAttr: number of events applied, and the largest value an update carries.
MaxAttrEvents == 3

MaxAttrValue == 1

\* SpecDetails: subscriptions of either kind made in a behaviour.
MaxDetailWatch == 3

\* SpecLayer: threads, and the callbacks the layer receives in a behaviour.
MaxThreads == 1

MaxLayerCalls == 5

(* ------------------------- configuration ------------------------------- *)

\* Builder::event_buffer_capacity as configured in the model.
EventBufferCapacity == 2

\* Builder::client_buffer_capacity as configured in the model.
ClientBufferCapacity == 1

\* Builder::retention as configured in the model (clock units).
Retention == 1

\* Conservatively, start to trigger a flush when half the channel is full.
flush_under_capacity == EventBufferCapacity \div 2

(* ------------------------------ state ---------------------------------- *)

VARIABLES
    agg,              \* the Aggregator struct's owned state
    pc,               \* position of Aggregator::run
    should_send,      \* the local of Aggregator::run
    events,           \* the bounded mpsc channel of Events
    events_closed,    \* every Sender of the event channel has been dropped
    rpcs,             \* the control channel of subscription requests
    rpcs_closed,      \* the Server's Sender of the control channel was dropped
    triggered,        \* Flush::triggered
    notify_permit,    \* Flush::should_flush holds a notification
    dropped,          \* Shared::dropped_tasks / dropped_resources / dropped_async_ops
    clock,            \* SystemTime::now()
    chan,             \* per Watch: the client channel (buffered updates, receiver alive)
    sends,            \* history: number of send() calls made
    subs,             \* history: number of subscriptions requested
    hist,             \* SpecPoll history: the last event applied and per-id trackers
    last_update,      \* history: what the last publish built and who got it
    last_gc,          \* history: what the last cleanup_closed saw and dropped
    owed,             \* history: per Watch, the entries written since it was last sent an update
    table,            \* SpecIdData: one IdData<T>
    yielded,          \* SpecIdData: per id, yields by since_last_update since its last write
    calls,            \* SpecIdData, SpecPoll, SpecLife: number of calls made
    prod,             \* SpecFlush: per producer, its position inside send()
    applied,          \* SpecOrder history: the events applied by update_state, in order
    spans,            \* SpecLayer: the live spans of the registry, with their Tracked marker
    current_spans,    \* SpecLayer: ConsoleLayer::current_spans, per thread
    inside            \* SpecLayer: per thread, the spans it has entered and not exited

vars == << agg, pc, should_send, events, events_closed, rpcs, rpcs_closed,
           triggered, notify_permit, dropped, clock, chan,
           sends, subs, hist, last_update, last_gc, owed, table, yielded, calls,
           prod, applied, spans, current_spans, inside >>

(* ------------------------------ helpers -------------------------------- *)

\* Option::None for Option<SystemTime>, Option<span::Id> and Option<Duration>;
\* timestamps, ids and durations are naturals.
None == 0 - 1

Ids == 1 .. MaxId

Producers == 1 .. MaxProducers

\* The threads that run instrumented code, and ThreadLocal::get() of a thread
\* that has not created its value.
Threads == 1 .. MaxThreads

NoStack == [ created |-> FALSE, stack |-> << >> ]

Range(s) == { s[i] : i \in DOMAIN s }

\* HashMap::remove / retain on a function.
Restrict(f, S) == [ x \in S |-> f[x] ]

(* ------------------------------ PollStats ------------------------------ *)

\* u64 counters are kept modulo 2^64; a value n < 0 stands for 2^64 + n (the
\* result of wrapping below zero), so that n = 0 means what it means in the code.
\* `overflow_checks` is the build's setting: with it an arithmetic overflow
\* panics (debug profile), without it the value wraps (release profile).

PollStats_default ==
    [ current_polls     |-> 0,
      polls             |-> 0,
      first_poll        |-> None,
      last_poll_started |-> None,
      last_poll_ended   |-> None,
      busy_time         |-> 0 ]

\* `self.current_polls += 1` overflows when current_polls is u64::MAX.
update_on_span_enter_panics(self, timestamp, overflow_checks) ==
    self.current_polls = 0 - 1 /\ overflow_checks

\* Variant: every outermost Enter assigns first_poll.
update_on_span_enter_refirst(self, timestamp) ==
    LET s1 == IF self.current_polls = 0
              THEN [ self EXCEPT !.last_poll_started = timestamp,
                                 !.first_poll = timestamp,
                                 !.polls = @ + 1 ]
              ELSE self
    IN [ s1 EXCEPT !.current_polls = @ + 1 ]

\* Variant: every Enter counts as a poll.
update_on_span_enter_all(self, timestamp) ==
    LET s1 == [ self EXCEPT !.last_poll_started = timestamp,
                            !.first_poll = IF @ = None THEN timestamp ELSE @,
                            !.polls = @ + 1 ]
    IN [ s1 EXCEPT !.current_polls = @ + 1 ]

update_on_span_enter(self, timestamp) ==
    LET s1 == IF self.current_polls = 0
              THEN [ self EXCEPT !.last_poll_started = timestamp,
                                 !.first_poll = IF @ = None THEN timestamp ELSE @,
                                 !.polls = @ + 1 ]
              ELSE self
    IN [ s1 EXCEPT !.current_polls = @ + 1 ]

\* `self.current_polls -= 1` overflows at 0; duration_since(..).unwrap() panics
\* when the timestamp is earlier than last_poll_started.
update_on_span_exit_panics(self, timestamp, overflow_checks) ==
    \/ self.current_polls = 0 /\ overflow_checks
    \/ /\ self.current_polls - 1 = 0
       /\ self.last_poll_started # None
       /\ timestamp < self.last_poll_started

\* Variant: every Exit accrues busy time.
update_on_span_exit_every(self, timestamp) ==
    LET s1 == [ self EXCEPT !.current_polls = @ - 1 ]
    IN IF s1.last_poll_started # None
       THEN [ s1 EXCEPT !.last_poll_ended = timestamp,
                        !.busy_time = @ + (timestamp - s1.last_poll_started) ]
       ELSE s1

update_on_span_exit(self, timestamp) ==
    LET s1 == [ self EXCEPT !.current_polls = @ - 1 ]
    IN IF s1.current_polls = 0 /\ s1.last_poll_started # None
       THEN [ s1 EXCEPT !.last_poll_ended = timestamp,
                        !.busy_time = @ + (timestamp - s1.last_poll_started) ]
       ELSE s1

since_last_poll_panics(self, timestamp) ==
    self.last_poll_started # None /\ timestamp < self.last_poll_started

since_last_poll(self, timestamp) ==
    IF self.last_poll_started = None
    THEN None
    ELSE timestamp - self.last_poll_started

(* --------------------------- stats records ----------------------------- *)

TaskStats_default ==
    [ created_at           |-> None,
      closed_at            |-> None,
      wakes                |-> 0,
      waker_clones         |-> 0,
      waker_drops          |-> 0,
      last_wake            |-> None,
      poll_times_histogram |-> EmptyBag,
      poll_stats           |-> PollStats_default ]

ResourceStats_default ==
    [ created_at |-> None,
      closed_at  |-> None,
      attributes |-> << >> ]

AsyncOpStats_default ==
    [ created_at  |-> None,
      closed_at   |-> None,
      resource_id |-> None,
      task_id     |-> None,
      poll_stats  |-> PollStats_default ]

\* Closable::closed_at
closed_at(stats) == stats.closed_at

(* ------------------------------- IdData -------------------------------- *)

\* IdData<T> is a function from the ids present to [data, dirty], the (T, bool)
\* of the HashMap.

IdData_default == << >>

\* Variant: the release sets the dirty bit only when the value was changed.
Updating_if_changed(self, id, data) ==
    [ self EXCEPT ![id] = [ data |-> data, dirty |-> @.dirty \/ data # @.data ] ]

\* Drop for Updating: the handle's release stores the (possibly modified) value
\* and sets the dirty bit.
Updating(self, id, data) ==
    [ self EXCEPT ![id] = [ data |-> data, dirty |-> TRUE ] ]

\* HashMap::entry(id).or_default(): an absent id gets (T::default(), false).
update_or_default(self, id, default) ==
    IF id \in DOMAIN self
    THEN self
    ELSE [ i \in DOMAIN self \cup {id} |->
             IF i = id THEN [ data |-> default, dirty |-> FALSE ] ELSE self[i] ]

\* IdData::update returns a handle only for a present id.
update(self, id) == id \in DOMAIN self

insert(self, id, data) ==
    [ i \in DOMAIN self \cup {id} |->
        IF i = id THEN [ data |-> data, dirty |-> TRUE ] ELSE self[i] ]

\* The ids since_last_update yields, and the table it leaves (the iterator is
\* consumed whole by collect()).
since_last_update_ids(self) == { id \in DOMAIN self : self[id].dirty }

\* Variant: the dirty bits are left set.
since_last_update_noclear(self) == self

since_last_update(self) ==
    [ id \in DOMAIN self |-> [ self[id] EXCEPT !.dirty = FALSE ] ]

all(self) == DOMAIN self

get(self, id) == IF id \in DOMAIN self THEN self[id].data ELSE None

(* ------------------------------ to_proto ------------------------------- *)

total_time(created, closed) ==
    IF closed = None \/ created = None THEN None
    ELSE IF closed >= created THEN closed - created ELSE None

PollStats_to_proto(self) ==
    [ polls             |-> self.polls,
      first_poll        |-> self.first_poll,
      last_poll_started |-> self.last_poll_started,
      last_poll_ended   |-> self.last_poll_ended,
      busy_time         |-> self.busy_time ]

TaskStats_to_proto(self) ==
    [ poll_stats   |-> PollStats_to_proto(self.poll_stats),
      created_at   |-> self.created_at,
      total_time   |-> total_time(self.created_at, self.closed_at),
      wakes        |-> self.wakes,
      waker_clones |-> self.waker_clones,
      waker_drops  |-> self.waker_drops,
      last_wake    |-> self.last_wake ]

ResourceStats_to_proto(self) ==
    [ created_at |-> self.created_at,
      total_time |-> total_time(self.created_at, self.closed_at),
      attributes |-> Range(self.attributes) ]

AsyncOpStats_to_proto(self) ==
    [ poll_stats  |-> PollStats_to_proto(self.poll_stats),
      created_at  |-> self.created_at,
      total_time  |-> total_time(self.created_at, self.closed_at),
      resource_id |-> self.resource_id,
      task_id     |-> self.task_id ]

\* The three stats tables by kind, and their to_proto.
Kinds == { "task", "resource", "async_op" }

StatsOf(self, kind) ==
    CASE kind = "task"     -> self.task_stats
      [] kind = "resource" -> self.resource_stats
      [] kind = "async_op" -> self.async_op_stats

StaticOf(self, kind) ==
    CASE kind = "task"     -> self.tasks
      [] kind = "resource" -> self.resources
      [] kind = "async_op" -> self.async_ops

to_proto(kind, stats) ==
    CASE kind = "task"     -> TaskStats_to_proto(stats)
      [] kind = "resource" -> ResourceStats_to_proto(stats)
      [] kind = "async_op" -> AsyncOpStats_to_proto(stats)

\* IdData::as_proto: the map id -> proto of the entries it includes.
as_proto_ids(self, include) ==
    IF include = "UpdatedOnly" THEN since_last_update_ids(self) ELSE all(self)

as_proto(self, include, kind) ==
    [ id \in as_proto_ids(self, include) |-> to_proto(kind, self[id].data) ]

\* The table as_proto leaves behind.
as_proto_after(self, include) ==
    IF include = "UpdatedOnly" THEN since_last_update(self) ELSE self

(* ---------------------------- update_state ----------------------------- *)

\* Event::Metadata
update_state_Metadata(self, event) ==
    [ self EXCEPT !.all_metadata = Append(@, event.meta),
                  !.new_metadata = Append(@, event.meta) ]

\* Event::Spawn
update_state_Spawn(self, event) ==
    [ self EXCEPT
        !.tasks = insert(@, event.id,
                         [ id |-> event.id, metadata |-> event.metadata ]),
        !.task_stats = insert(@, event.id,
                         [ TaskStats_default EXCEPT !.created_at = event.at ]) ]

\* Event::Enter
update_state_Enter_panics(self, event, overflow_checks) ==
    \/ /\ update(self.task_stats, event.id)
       /\ update_on_span_enter_panics(self.task_stats[event.id].data.poll_stats,
                                      event.at, overflow_checks)
    \/ /\ update(self.async_op_stats, event.id)
       /\ update_on_span_enter_panics(self.async_op_stats[event.id].data.poll_stats,
                                      event.at, overflow_checks)

update_state_Enter(self, event) ==
    LET s1 == IF update(self.task_stats, event.id)
              THEN LET task_stats == self.task_stats[event.id].data
                   IN [ self EXCEPT !.task_stats = Updating(@, event.id,
                          [ task_stats EXCEPT !.poll_stats =
                              update_on_span_enter(@, event.at) ]) ]
              ELSE self
    IN IF update(s1.async_op_stats, event.id)
       THEN LET async_op_stats == s1.async_op_stats[event.id].data
            IN [ s1 EXCEPT !.async_op_stats = Updating(@, event.id,
                   [ async_op_stats EXCEPT !.poll_stats =
                       update_on_span_enter(@, event.at) ]) ]
       ELSE s1

\* Event::Exit
update_state_Exit_panics(self, event, overflow_checks) ==
    \/ /\ update(self.task_stats, event.id)
       /\ \/ update_on_span_exit_panics(self.task_stats[event.id].data.poll_stats,
                                        event.at, overflow_checks)
          \/ since_last_poll_panics(self.task_stats[event.id].data.poll_stats, event.at)
    \/ /\ update(self.async_op_stats, event.id)
       /\ update_on_span_exit_panics(self.async_op_stats[event.id].data.poll_stats,
                                     event.at, overflow_checks)

update_state_Exit(self, event) ==
    LET s1 == IF update(self.task_stats, event.id)
              THEN LET task_stats == self.task_stats[event.id].data
                       poll_stats == update_on_span_exit(task_stats.poll_stats, event.at)
                       since      == since_last_poll(poll_stats, event.at)
                   IN [ self EXCEPT !.task_stats = Updating(@, event.id,
                          [ task_stats EXCEPT
                              !.poll_stats = poll_stats,
                              !.poll_times_histogram =
                                  IF since # None THEN @ (+) SetToBag({since}) ELSE @ ]) ]
              ELSE self
    IN IF update(s1.async_op_stats, event.id)
       THEN LET async_op_stats == s1.async_op_stats[event.id].data
            IN [ s1 EXCEPT !.async_op_stats = Updating(@, event.id,
                   [ async_op_stats EXCEPT !.poll_stats =
                       update_on_span_exit(@, event.at) ]) ]
       ELSE s1

\* Event::Close
update_state_Close(self, event) ==
    LET s1 == IF update(self.task_stats, event.id)
              THEN [ self EXCEPT !.task_stats = Updating(@, event.id,
                       [ self.task_stats[event.id].data EXCEPT !.closed_at = event.at ]) ]
              ELSE self
        s2 == IF update(s1.resource_stats, event.id)
              THEN [ s1 EXCEPT !.resource_stats = Updating(@, event.id,
                       [ s1.resource_stats[event.id].data EXCEPT !.closed_at = event.at ]) ]
              ELSE s1
    IN IF update(s2.async_op_stats, event.id)
       THEN [ s2 EXCEPT !.async_op_stats = Updating(@, event.id,
                [ s2.async_op_stats[event.id].data EXCEPT !.closed_at = event.at ]) ]
       ELSE s2

\* Variant: waking by value does not count a drop.
update_state_Waker_nodrop(self, event) ==
    IF update(self.task_stats, event.id)
    THEN LET task_stats == self.task_stats[event.id].data
             after ==
               CASE event.op \in { "Wake", "WakeByRef" } ->
                      [ task_stats EXCEPT !.wakes = @ + 1, !.last_wake = event.at ]
                 [] event.op = "Clone" ->
                      [ task_stats EXCEPT !.waker_clones = @ + 1 ]
                 [] event.op = "Drop" ->
                      [ task_stats EXCEPT !.waker_drops = @ + 1 ]
         IN [ self EXCEPT !.task_stats = Updating(@, event.id, after) ]
    ELSE self

\* Event::Waker
update_state_Waker(self, event) ==
    IF update(self.task_stats, event.id)
    THEN LET task_stats == self.task_stats[event.id].data
             after ==
               CASE event.op \in { "Wake", "WakeByRef" } ->
                      [ task_stats EXCEPT
                          !.wakes = @ + 1,
                          !.last_wake = event.at,
                          !.waker_drops = IF event.op = "Wake" THEN @ + 1 ELSE @ ]
                 [] event.op = "Clone" ->
                      [ task_stats EXCEPT !.waker_clones = @ + 1 ]
                 [] event.op = "Drop" ->
                      [ task_stats EXCEPT !.waker_drops = @ + 1 ]
         IN [ self EXCEPT !.task_stats = Updating(@, event.id, after) ]
    ELSE self

\* Event::Resource
update_state_Resource(self, event) ==
    [ self EXCEPT
        !.resources = insert(@, event.id,
                        [ id |-> event.id, metadata |-> event.metadata,
                          concrete_type |-> event.concrete_type, kind |-> event.kind_tag ]),
        !.resource_stats = insert(@, event.id,
                        [ ResourceStats_default EXCEPT !.created_at = event.at ]) ]

\* Event::PollOp
update_state_PollOp(self, event) ==
    LET table0 == update_or_default(self.async_op_stats, event.async_op_id,
                                    AsyncOpStats_default)
        stats0 == table0[event.async_op_id].data
        stats1 == [ stats0 EXCEPT
                      !.poll_stats.polls = @ + 1,
                      !.task_id = IF @ = None THEN event.task_id ELSE @,
                      !.resource_id = IF @ = None THEN event.resource_id ELSE @ ]
        stats2 == IF event.readiness = "Pending" /\ stats1.poll_stats.first_poll = None
                  THEN [ stats1 EXCEPT !.poll_stats.first_poll = event.at ]
                  ELSE stats1
        poll_op == [ metadata    |-> event.metadata,
                     resource_id |-> event.resource_id,
                     name        |-> event.op_name,
                     task_id     |-> event.task_id,
                     async_op_id |-> event.async_op_id,
                     readiness   |-> event.readiness ]
    IN [ self EXCEPT
           !.async_op_stats = Updating(table0, event.async_op_id, stats2),
           !.all_poll_ops = Append(@, poll_op),
           !.new_poll_ops = Append(@, poll_op) ]

\* update_attribute: the stored value is replaced or combined only when the
\* update's value has the same variant.
update_attribute_panics(attribute, upd, overflow_checks) ==
    /\ attribute.type = "U64Val" /\ upd.type = "U64Val"
    /\ upd.op = "Sub" /\ attribute.value < upd.value
    /\ overflow_checks

\* Variant: the update's value replaces the stored one whatever its variant.
update_attribute_any(attribute, upd) ==
    [ attribute EXCEPT !.type = upd.type, !.value = upd.value ]

update_attribute(attribute, upd) ==
    CASE attribute.type = upd.type /\ upd.type \in { "BoolVal", "StrVal", "DebugVal" } ->
           [ attribute EXCEPT !.value = upd.value ]
      [] attribute.type = upd.type /\ upd.type \in { "U64Val", "I64Val" } ->
           [ attribute EXCEPT !.value =
               CASE upd.op = "Add" -> @ + upd.value
                 [] upd.op = "Sub" -> @ - upd.value
                 [] upd.op = "Ovr" -> upd.value ]
      [] OTHER -> attribute

\* From<AttributeUpdate> for Attribute
Attribute_from(upd) ==
    [ key |-> upd.key, type |-> upd.type, value |-> upd.value, unit |-> upd.unit ]

\* Event::StateUpdate
update_state_StateUpdate_panics(self, event, overflow_checks) ==
    /\ update(self.resource_stats, event.resource_id)
    /\ event.update.key \in DOMAIN self.resource_stats[event.resource_id].data.attributes
    /\ update_attribute_panics(
           self.resource_stats[event.resource_id].data.attributes[event.update.key],
           event.update, overflow_checks)

update_state_StateUpdate(self, event) ==
    IF update(self.resource_stats, event.resource_id)
    THEN LET stats   == self.resource_stats[event.resource_id].data
             upd_key == event.update.key
             attrs   == stats.attributes
             after   == IF upd_key \in DOMAIN attrs
                        THEN [ attrs EXCEPT ![upd_key] = update_attribute(@, event.update) ]
                        ELSE [ k \in DOMAIN attrs \cup {upd_key} |->
                                 IF k = upd_key THEN Attribute_from(event.update)
                                 ELSE attrs[k] ]
         IN [ self EXCEPT !.resource_stats = Updating(@, event.resource_id,
                [ stats EXCEPT !.attributes = after ]) ]
    ELSE self

\* Event::AsyncResourceOp
update_state_AsyncResourceOp(self, event) ==
    [ self EXCEPT
        !.async_ops = insert(@, event.id,
                        [ id |-> event.id, metadata |-> event.metadata,
                          source |-> event.source ]),
        !.async_op_stats = insert(@, event.id,
                        [ AsyncOpStats_default EXCEPT !.created_at = event.at ]) ]

\* The handler aborts (a panic unwinds Aggregator::run) on these events.
update_state_panics(self, event, overflow_checks) ==
    CASE event.kind = "Enter"       -> update_state_Enter_panics(self, event, overflow_checks)
      [] event.kind = "Exit"        -> update_state_Exit_panics(self, event, overflow_checks)
      [] event.kind = "StateUpdate" -> update_state_StateUpdate_panics(self, event,
                                                                       overflow_checks)
      [] OTHER                      -> FALSE

update_state(self, event) ==
    CASE event.kind = "Metadata"        -> update_state_Metadata(self, event)
      [] event.kind = "Spawn"           -> update_state_Spawn(self, event)
      [] event.kind = "Enter"           -> update_state_Enter(self, event)
      [] event.kind = "Exit"            -> update_state_Exit(self, event)
      [] event.kind = "Close"           -> update_state_Close(self, event)
      [] event.kind = "Waker"           -> update_state_Waker(self, event)
      [] event.kind = "Resource"        -> update_state_Resource(self, event)
      [] event.kind = "PollOp"          -> update_state_PollOp(self, event)
      [] event.kind = "StateUpdate"     -> update_state_StateUpdate(self, event)
      [] event.kind = "AsyncResourceOp" -> update_state_AsyncResourceOp(self, event)

(* ------------------------------- Watch --------------------------------- *)

\* A client channel: the number of updates buffered in it, its capacity and
\* whether its Receiver is still alive (what each update carried is recorded
\* where it is sent).  try_reserve succeeds when the receiver is alive and a
\* slot is free.
Watch_can_accept(ch) == ch.rx_alive /\ ch.len < ch.cap

\* Variant: retain keeps every watch.
Watch_update_kept_all(ws, chans) == ws

\* Watch::update on every watch of the sequence `ws` against channels `chans`:
\* the watches kept by Vec::retain, and the channels after the sends.
Watch_update_kept(ws, chans) == SelectSeq(ws, LAMBDA w : Watch_can_accept(chans[w]))

Watch_update_chans(ws, chans) ==
    [ w \in DOMAIN chans |->
        IF w \in Range(ws) /\ Watch_can_accept(chans[w])
        THEN [ chans[w] EXCEPT !.len = @ + 1 ]
        ELSE chans[w] ]

\* The watches whose Sender still exists: held by the aggregator or travelling
\* in a Command::Instrument of the control channel.  Dropping a Watch drops its channel.
LiveWatches(self, control) ==
    Range(self.watchers)
    \cup UNION { Range(self.details_watchers[id]) : id \in DOMAIN self.details_watchers }
    \cup { control[i].watch :
             i \in { j \in DOMAIN control :
                       control[j].kind = "Instrument" } }

(* ------------------------------ publish -------------------------------- *)

Task_to_proto(self) == [ id |-> self.id, kind |-> "Spawn", metadata |-> self.metadata ]

Resource_to_proto(self) == self

AsyncOp_to_proto(self) == self

\* The InstrumentUpdate built by publish.
publish_update(self, now) ==
    [ now          |-> now,
      \* Option<RegisterMetadata>: << >> is None, << m >> is Some(m)
      new_metadata |-> IF self.new_metadata # << >> THEN << self.new_metadata >> ELSE << >>,
      task_update  |->
        [ new_tasks    |-> { Task_to_proto(self.tasks[id].data) :
                                 id \in since_last_update_ids(self.tasks) },
          stats_update |-> as_proto(self.task_stats, "UpdatedOnly", "task") ],
      resource_update |->
        [ new_resources |-> { Resource_to_proto(self.resources[id].data) :
                                 id \in since_last_update_ids(self.resources) },
          stats_update  |-> as_proto(self.resource_stats, "UpdatedOnly", "resource"),
          new_poll_ops  |-> self.new_poll_ops ],
      async_op_update |->
        [ new_async_ops |-> { AsyncOp_to_proto(self.async_ops[id].data) :
                                 id \in since_last_update_ids(self.async_ops) },
          stats_update  |-> as_proto(self.async_op_stats, "UpdatedOnly", "async_op") ] ]

\* The TaskDetails message for a task: serialize_histogram of its histogram.
TaskDetails(self, id, now) ==
    [ task_id |-> id, now |-> now,
      poll_times_histogram |-> self.task_stats[id].data.poll_times_histogram ]

\* Variant: the entry of a task that is no longer in task_stats is kept.
publish_details_kept_stale(self, chans) ==
    LET kept(id) == Watch_update_kept(self.details_watchers[id], chans)
        ids == { id \in DOMAIN self.details_watchers :
                   id \notin DOMAIN self.task_stats \/ kept(id) # << >> }
    IN [ id \in ids |->
           IF id \in DOMAIN self.task_stats THEN kept(id) ELSE self.details_watchers[id] ]

\* details_watchers.retain: entries of pruned tasks go, the others keep the
\* watches that accepted the TaskDetails and go when none is left.
publish_details_kept(self, chans) ==
    LET kept(id) == Watch_update_kept(self.details_watchers[id], chans)
        ids == { id \in DOMAIN self.details_watchers :
                   id \in DOMAIN self.task_stats /\ kept(id) # << >> }
    IN [ id \in ids |-> kept(id) ]

publish_details_chans(self, chans) ==
    [ w \in DOMAIN chans |->
        IF \E id \in DOMAIN self.details_watchers :
              /\ id \in DOMAIN self.task_stats
              /\ w \in Range(self.details_watchers[id])
              /\ Watch_can_accept(chans[w])
        THEN [ chans[w] EXCEPT !.len = @ + 1 ]
        ELSE chans[w] ]

\* Variant of publish: new_metadata and new_poll_ops are not taken.
publish_keep_lists(self, chans) ==
    [ self EXCEPT
        !.tasks           = since_last_update(@),
        !.task_stats      = as_proto_after(@, "UpdatedOnly"),
        !.resources       = since_last_update(@),
        !.resource_stats  = as_proto_after(@, "UpdatedOnly"),
        !.async_ops       = since_last_update(@),
        !.async_op_stats  = as_proto_after(@, "UpdatedOnly"),
        !.watchers        = Watch_update_kept(@, chans),
        !.details_watchers = publish_details_kept(self, chans) ]

\* The aggregator after publish (the dirty bits drained, the new_* lists taken,
\* the watcher lists compacted).
publish(self, chans) ==
    [ self EXCEPT
        !.new_metadata    = << >>,
        !.new_poll_ops    = << >>,
        !.tasks           = since_last_update(@),
        !.task_stats      = as_proto_after(@, "UpdatedOnly"),
        !.resources       = since_last_update(@),
        !.resource_stats  = as_proto_after(@, "UpdatedOnly"),
        !.async_ops       = since_last_update(@),
        !.async_op_stats  = as_proto_after(@, "UpdatedOnly"),
        !.watchers        = Watch_update_kept(@, chans),
        !.details_watchers = publish_details_kept(self, chans) ]

\* The client channels after publish's sends.
publish_chans(self, chans) ==
    publish_details_chans(self, Watch_update_chans(self.watchers, chans))

(* --------------------------- cleanup_closed ---------------------------- *)

\* now.duration_since(closed).unwrap_or_default()
closed_for(now, closed) == IF now >= closed THEN now - closed ELSE 0

\* Variant: age alone never drops an entry.
should_drop_unexpired(dirty, has_watchers, for, retention) ==
    dirty /\ has_watchers

should_drop(dirty, has_watchers, for, retention) ==
    (dirty /\ has_watchers) \/ for > retention

\* Variant: an entry that is not closed is dropped when dirty and watched.
drop_closed_retained_open(stats, now, retention, has_watchers) ==
    { id \in DOMAIN stats :
        IF closed_at(stats[id].data) # None
        THEN ~ should_drop(stats[id].dirty, has_watchers,
                           closed_for(now, closed_at(stats[id].data)), retention)
        ELSE ~ (stats[id].dirty /\ has_watchers) }

\* The ids stats.data.retain keeps.
drop_closed_retained(stats, now, retention, has_watchers) ==
    { id \in DOMAIN stats :
        IF closed_at(stats[id].data) # None
        THEN ~ should_drop(stats[id].dirty, has_watchers,
                           closed_for(now, closed_at(stats[id].data)), retention)
        ELSE TRUE }

\* IdData::drop_closed: the stats table and the static table it leaves.
drop_closed_stats(stats, now, retention, has_watchers) ==
    Restrict(stats, drop_closed_retained(stats, now, retention, has_watchers))

\* Variant: the static table is left as it is.
drop_closed_keeps_static(self, stats, now, retention, has_watchers) ==
    self

drop_closed(self, stats, now, retention, has_watchers) ==
    Restrict(self, DOMAIN self \cap
                   DOMAIN drop_closed_stats(stats, now, retention, has_watchers))

cleanup_closed(self, now) ==
    LET has_watchers == self.watchers # << >>
    IN [ self EXCEPT
           !.tasks = drop_closed(@, self.task_stats, now, Retention, has_watchers),
           !.task_stats = drop_closed_stats(@, now, Retention, has_watchers),
           !.resources = drop_closed(@, self.resource_stats, now, Retention, has_watchers),
           !.resource_stats = drop_closed_stats(@, now, Retention, has_watchers),
           !.async_ops = drop_closed(@, self.async_op_stats, now, Retention, has_watchers),
           !.async_op_stats = drop_closed_stats(@, now, Retention, has_watchers) ]

(* --------------------------- subscriptions ----------------------------- *)

\* The initial InstrumentUpdate of add_instrument_subscription.
initial_update(self, now) ==
    [ now          |-> now,
      new_metadata |-> << self.all_metadata >>,
      task_update  |->
        [ new_tasks    |-> { Task_to_proto(self.tasks[id].data) : id \in all(self.tasks) },
          stats_update |-> as_proto(self.task_stats, "All", "task") ],
      resource_update |->
        [ new_resources |-> { Resource_to_proto(self.resources[id].data) :
                                 id \in all(self.resources) },
          stats_update  |-> as_proto(self.resource_stats, "All", "resource"),
          new_poll_ops  |-> self.all_poll_ops ],
      async_op_update |->
        [ new_async_ops |-> { AsyncOp_to_proto(self.async_ops[id].data) :
                                 id \in all(self.async_ops) },
          stats_update  |-> as_proto(self.async_op_stats, "All", "async_op") ] ]

\* Variant: the snapshot is taken with Include::UpdatedOnly semantics, draining
\* the dirty bits of the stats tables.
add_instrument_subscription_draining(self, subscription, chans) ==
    [ self EXCEPT
        !.task_stats     = since_last_update(@),
        !.resource_stats = since_last_update(@),
        !.async_op_stats = since_last_update(@),
        !.watchers = IF Watch_can_accept(chans[subscription])
                     THEN Append(@, subscription) ELSE @ ]

add_instrument_subscription(self, subscription, chans) ==
    IF Watch_can_accept(chans[subscription])
    THEN [ self EXCEPT !.watchers = Append(@, subscription) ]
    ELSE self

add_instrument_subscription_chans(self, subscription, chans) ==
    Watch_update_chans(<< subscription >>, chans)

\* add_task_detail_subscription: the aggregator creates the channel, hands the
\* receiver back through the one-shot and sends the first TaskDetails.
\* Variant: the result of the first update is not looked at.
add_task_detail_subscription_ok_unchecked(self, watch_request) ==
    /\ watch_request.id \in DOMAIN self.task_stats
    /\ watch_request.stream_alive

\* The task is found, stream_sender.send(rx) is Ok (the caller still waits on
\* the one-shot) and subscription.update(..) is true (the caller has not dropped
\* the receiver it was handed; the fresh channel has a free slot).
add_task_detail_subscription_ok(self, watch_request) ==
    /\ watch_request.id \in DOMAIN self.task_stats
    /\ watch_request.stream_alive
    /\ watch_request.rx_alive

add_task_detail_subscription(self, watch_request) ==
    IF add_task_detail_subscription_ok(self, watch_request)
    THEN [ self EXCEPT !.details_watchers =
             [ id \in DOMAIN @ \cup { watch_request.id } |->
                 IF id \in DOMAIN @
                 THEN IF id = watch_request.id
                      THEN Append(@[id], watch_request.watch) ELSE @[id]
                 ELSE << watch_request.watch >> ] ]
    ELSE self

add_task_detail_subscription_chans(self, watch_request, chans) ==
    IF add_task_detail_subscription_ok(self, watch_request)
    THEN [ w \in DOMAIN chans \cup { watch_request.watch } |->
             IF w = watch_request.watch
             THEN [ len |-> 1,
                    cap |-> watch_request.buffer,
                    rx_alive |-> TRUE ]
             ELSE chans[w] ]
    ELSE chans

\* Server::watch_task_details, what stream_recv.await yields to a caller that
\* waits for it: the receiver the aggregator sent, or the not-found status when
\* the aggregator dropped stream_sender without sending.
watch_task_details_response(self, watch_request) ==
    IF watch_request.id \in DOMAIN self.task_stats THEN "stream" ELSE "not_found"

(* ------------------------- history bookkeeping ------------------------- *)

\* Every (kind, id) of the stats tables of two aggregator states.
StatsKeys(before, after) ==
    Kinds \X UNION { DOMAIN StatsOf(x, kind) : x \in { before, after }, kind \in Kinds }

\* An entry of `after` that is dirty and is new or changed with respect to `before`.
Dirtied(before, after, id) ==
    /\ id \in DOMAIN after
    /\ after[id].dirty
    /\ id \in DOMAIN before => before[id] # after[id]

\* The stats entries a step wrote, each tagged with whether it is closed and
\* whether its static record was written too.
Written(before, after) ==
    { << ki[1], ki[2],
         closed_at(StatsOf(after, ki[1])[ki[2]].data) # None,
         Dirtied(StaticOf(before, ki[1]), StaticOf(after, ki[1]), ki[2]) >> :
        ki \in { kj \in StatsKeys(before, after) :
                   Dirtied(StatsOf(before, kj[1]), StatsOf(after, kj[1]), kj[2]) } }

\* owed[w] after a step that wrote `written`: a rewritten entity replaces its
\* older element and stays owed its static record.
OwedAfterWrite(o, written) ==
    { x \in o : ~ \E y \in written : y[1] = x[1] /\ y[2] = x[2] }
    \cup
    { << y[1], y[2], y[3],
         y[4] \/ \E x \in o : x[1] = y[1] /\ x[2] = y[2] /\ x[4] >> : y \in written }

\* The entries of the stats tables that cleanup_closed dropped.
Dropped(before, after, now) ==
    { [ kind |-> ki[1], id |-> ki[2],
        dirty |-> StatsOf(before, ki[1])[ki[2]].dirty,
        has_watchers |-> before.watchers # << >>,
        closed_for |-> closed_for(now, closed_at(StatsOf(before, ki[1])[ki[2]].data)),
        static_gone |-> ki[2] \notin DOMAIN StaticOf(after, ki[1]) ] :
        ki \in { kj \in Kinds \X (DOMAIN before.task_stats \cup DOMAIN before.resource_stats
                                     \cup DOMAIN before.async_op_stats) :
                   /\ kj[2] \in DOMAIN StatsOf(before, kj[1])
                   /\ kj[2] \notin DOMAIN StatsOf(after, kj[1]) } }

\* The task-detail watchers a publish finds: per task id, whether the task is
\* still in task_stats, its watchers, and those whose channel can accept.
DetailsBefore(self, chans) ==
    [ id \in DOMAIN self.details_watchers |->
        [ found     |-> id \in DOMAIN self.task_stats,
          watchers  |-> self.details_watchers[id],
          accepting |-> { w \in Range(self.details_watchers[id]) :
                            Watch_can_accept(chans[w]) } ] ]

(* ------------------------------- Init ---------------------------------- *)

Aggregator_new ==
    [ watchers         |-> << >>,
      details_watchers |-> << >>,
      all_metadata     |-> << >>,
      new_metadata     |-> << >>,
      tasks            |-> IdData_default,
      task_stats       |-> IdData_default,
      resources        |-> IdData_default,
      resource_stats   |-> IdData_default,
      async_ops        |-> IdData_default,
      async_op_stats   |-> IdData_default,
      all_poll_ops     |-> << >>,
      new_poll_ops     |-> << >> ]

NoUpdate ==
    [ tag          |-> "none",
      update       |-> publish_update(Aggregator_new, 0),
      registered   |-> {},
      accepting    |-> {},
      delivered    |-> << >>,
      owed         |-> << >>,
      details      |-> << >>,
      quiet        |-> FALSE,
      events_since |-> FALSE ]

\* The per-id trackers of SpecPoll.
\*   outer: outermost Enter events applied to the task (current_polls was 0);
\*   run:   a run of n Enters begun at current_polls = 0 and followed by m Exits;
\*   scen:  progress k through Enter(T), Enter(T+1), Exit(T+2), Exit(T+5) begun at
\*          current_polls = 0 with busy_time = busy0.
NoRun == [ on |-> FALSE, n |-> 0, m |-> 0, polls0 |-> 0 ]

NoScenario == [ k |-> 0, T |-> 0, busy0 |-> 0 ]

\* ops: per task, the Waker events applied to it since its Spawn, by operation.
WakeOps == { "Wake", "WakeByRef", "Clone", "Drop" }

NoOps == [ op \in WakeOps |-> 0 ]

NoHistory ==
    [ last_event |-> [ kind |-> "none" ],
      ops        |-> [ id \in Ids |-> NoOps ],
      outer      |-> [ id \in Ids |-> 0 ],
      run        |-> [ id \in Ids |-> NoRun ],
      scen       |-> [ id \in Ids |-> NoScenario ] ]

InitCommon ==
    /\ agg = Aggregator_new
    /\ should_send = FALSE
    /\ events = << >>
    /\ events_closed = FALSE
    /\ rpcs = << >>
    /\ rpcs_closed = FALSE
    /\ triggered = FALSE
    /\ notify_permit = FALSE
    /\ dropped = [ c \in { "tasks", "resources", "async_ops" } |-> 0 ]
    /\ clock = 0
    /\ chan = << >>
    /\ sends = 0
    /\ subs = 0
    /\ hist = NoHistory
    /\ last_update = NoUpdate
    /\ last_gc = {}
    /\ owed = << >>
    /\ table = IdData_default
    /\ yielded = << >>
    /\ calls = 0
    /\ prod = [ p \in Producers |-> "idle" ]
    /\ applied = << >>
    /\ spans = << >>
    /\ current_spans = [ t \in Threads |-> NoStack ]
    /\ inside = [ t \in Threads |-> << >> ]

Init ==
    /\ InitCommon
    /\ pc = "select"

(* ------------------------------ producers ------------------------------ *)

\* The events the producers of Spec emit at wall-clock time `at`, each with the
\* drop counter its call site passes to send().
ProducerEvents(at) ==
    { [ counter |-> "tasks",
        event |-> [ kind |-> "Spawn", id |-> id, metadata |-> "m", at |-> at ] ] :
        id \in Ids }
    \cup
    { [ counter |-> "resources",
        event |-> [ kind |-> "Resource", id |-> id, metadata |-> "m", at |-> at,
                    concrete_type |-> "t", kind_tag |-> "k" ] ] : id \in Ids }
    \cup
    { [ counter |-> "async_ops",
        event |-> [ kind |-> "AsyncResourceOp", id |-> id, metadata |-> "m",
                    at |-> at, source |-> "s" ] ] : id \in Ids }
    \cup
    { [ counter |-> "tasks",
        event |-> [ kind |-> "Close", id |-> id, at |-> at ] ] : id \in Ids }
    \cup
    { [ counter |-> "async_ops",
        event |-> [ kind |-> "PollOp", metadata |-> "m", at |-> at,
                    resource_id |-> id, op_name |-> "op", async_op_id |-> id,
                    task_id |-> id, readiness |-> "Pending" ] ] : id \in Ids }
    \cup
    { [ counter |-> "tasks", event |-> [ kind |-> "Metadata", meta |-> "m" ] ] }

\* The Receiver of a channel is dropped when Aggregator::run returns or unwinds.
AggregatorGone == pc \in { "done", "panicked" }

\* Flush::trigger
trigger ==
    IF ~ triggered
    THEN triggered' = TRUE /\ notify_permit' = TRUE
    ELSE UNCHANGED << triggered, notify_permit >>

\* Variant: an event shed by a full queue is not counted.
send_try_reserve_silent(counter, event) ==
    IF AggregatorGone
    THEN UNCHANGED << events, dropped >>
    ELSE IF Len(events) < EventBufferCapacity
         THEN events' = Append(events, event) /\ UNCHANGED dropped
         ELSE UNCHANGED << events, dropped >>

\* Variant: the channel hands out its newest message first.
send_try_reserve_front(counter, event) ==
    IF AggregatorGone
    THEN UNCHANGED << events, dropped >>
    ELSE IF Len(events) < EventBufferCapacity
         THEN events' = << event >> \o events /\ UNCHANGED dropped
         ELSE dropped' = [ dropped EXCEPT ![counter] = @ + 1 ] /\ UNCHANGED events

\* ConsoleLayer::send, the match on self.tx.try_reserve(): Closed when the
\* Receiver is gone, Full when no slot is free.
send_try_reserve(counter, event) ==
    IF AggregatorGone
    THEN UNCHANGED << events, dropped >>
    ELSE IF Len(events) < EventBufferCapacity
         THEN events' = Append(events, event) /\ UNCHANGED dropped
         ELSE dropped' = [ dropped EXCEPT ![counter] = @ + 1 ] /\ UNCHANGED events

\* ConsoleLayer::send
send(counter, event) ==
    /\ send_try_reserve(counter, event)
    /\ IF EventBufferCapacity - Len(events') <= flush_under_capacity
       THEN trigger
       ELSE UNCHANGED << triggered, notify_permit >>

Produce ==
    /\ sends < MaxSends
    /\ ~ events_closed
    /\ \E p \in ProducerEvents(clock) : send(p.counter, p.event)
    /\ sends' = sends + 1
    /\ UNCHANGED << agg, pc, should_send, events_closed, rpcs, rpcs_closed, prod, applied, spans, current_spans, inside, clock,
                    chan, subs, hist, last_update, last_gc, owed,
                    table, yielded, calls >>

\* The ConsoleLayer (every Sender of the event channel) is dropped.
ProducersDrop ==
    /\ ~ events_closed
    /\ events_closed' = TRUE
    /\ UNCHANGED << agg, pc, should_send, events, rpcs, rpcs_closed, prod, applied, spans, current_spans, inside, triggered,
                    notify_permit, dropped, clock, chan, sends, subs,
                    hist, last_update, last_gc, owed, table, yielded, calls >>

\* The wall clock advances.
ClockAdvance ==
    /\ clock < MaxTime
    /\ clock' = clock + 1
    /\ UNCHANGED << agg, pc, should_send, events, events_closed, rpcs, rpcs_closed, prod, applied, spans, current_spans, inside,
                    triggered, notify_permit, dropped, chan, sends,
                    subs, hist, last_update, last_gc, owed, table, yielded, calls >>

(* ------------------------------- clients ------------------------------- *)

\* Server::watch_updates: a channel of client_buffer slots is created and its
\* Sender travels to the aggregator in a Command::Instrument.
WatchUpdates ==
    /\ subs < MaxWatch
    /\ ~ rpcs_closed
    /\ ~ AggregatorGone
    /\ subs' = subs + 1
    /\ chan' = [ w \in DOMAIN chan \cup { subs + 1 } |->
                   IF w = subs + 1
                   THEN [ len |-> 0, cap |-> ClientBufferCapacity, rx_alive |-> TRUE ]
                   ELSE chan[w] ]
    /\ owed' = [ w \in DOMAIN owed \cup { subs + 1 } |->
                   IF w = subs + 1 THEN {} ELSE owed[w] ]
    /\ rpcs' = Append(rpcs, [ kind |-> "Instrument", watch |-> subs + 1 ])
    /\ UNCHANGED << agg, pc, should_send, events, events_closed, rpcs_closed, prod, applied, spans, current_spans, inside,
                    triggered, notify_permit, dropped, clock, sends,
                    hist, last_update, last_gc, table, yielded, calls >>

\* A client takes the next update out of its stream.
ClientRecv ==
    /\ \E w \in DOMAIN chan :
          /\ chan[w].rx_alive
          /\ chan[w].len > 0
          /\ chan' = [ chan EXCEPT ![w].len = @ - 1 ]
    /\ UNCHANGED << agg, pc, should_send, events, events_closed, rpcs, rpcs_closed, prod, applied, spans, current_spans, inside,
                    triggered, notify_permit, dropped, clock, sends,
                    subs, hist, last_update, last_gc, owed, table, yielded, calls >>

\* A client goes away: the Receiver of its stream is dropped.
ClientClose ==
    /\ \E w \in DOMAIN chan :
          /\ chan[w].rx_alive
          /\ chan' = [ chan EXCEPT ![w] = [ @ EXCEPT !.rx_alive = FALSE, !.len = 0 ] ]
    /\ UNCHANGED << agg, pc, should_send, events, events_closed, rpcs, rpcs_closed, prod, applied, spans, current_spans, inside,
                    triggered, notify_permit, dropped, clock, sends,
                    subs, hist, last_update, last_gc, owed, table, yielded, calls >>

\* The Server (the Sender of the control channel) is dropped.
ServerDrop ==
    /\ ~ rpcs_closed
    /\ rpcs_closed' = TRUE
    /\ UNCHANGED << prod, applied, spans, current_spans, inside >>
    /\ UNCHANGED << agg, pc, should_send, events, events_closed, rpcs, triggered,
                    notify_permit, dropped, clock, chan, sends, subs,
                    hist, last_update, last_gc, owed, table, yielded, calls >>

(* --------------------------- Aggregator::run --------------------------- *)

\* Variant: the select! has a branch on events.recv() in place of the tick.
PublishTick_on_event ==
    /\ pc = "select"
    /\ events # << >>
    /\ last_gc' = {}
    /\ should_send' = FALSE
    /\ pc' = "drain"
    /\ UNCHANGED << agg, events, events_closed, rpcs, rpcs_closed, prod, applied, spans, current_spans, inside, triggered,
                    notify_permit, dropped, clock, chan, sends, subs,
                    hist, last_update,  owed, table, yielded, calls >>

\* select!: the publish interval ticks.
PublishTick ==
    /\ pc = "select"
    /\ last_gc' = {}
    /\ should_send' = TRUE
    /\ pc' = "drain"
    /\ UNCHANGED << agg, events, events_closed, rpcs, rpcs_closed, prod, applied, spans, current_spans, inside, triggered,
                    notify_permit, dropped, clock, chan, sends, subs,
                    hist, last_update,  owed, table, yielded, calls >>

\* Variant: the flush branch yields true.
FlushNotified_sends ==
    /\ pc = "select"
    /\ last_gc' = {}
    /\ notify_permit
    /\ notify_permit' = FALSE
    /\ triggered' = FALSE
    /\ should_send' = TRUE
    /\ pc' = "drain"
    /\ UNCHANGED << agg, events, events_closed, rpcs, rpcs_closed, prod, applied, spans, current_spans, inside, dropped, clock,
                    chan, sends, subs, hist, last_update, 
                    owed, table, yielded, calls >>

\* select!: flush_capacity.should_flush.notified()
FlushNotified ==
    /\ pc = "select"
    /\ last_gc' = {}
    /\ notify_permit
    /\ notify_permit' = FALSE
    /\ triggered' = FALSE
    /\ should_send' = FALSE
    /\ pc' = "drain"
    /\ UNCHANGED << agg, events, events_closed, rpcs, rpcs_closed, prod, applied, spans, current_spans, inside, dropped, clock,
                    chan, sends, subs, hist, last_update, 
                    owed, table, yielded, calls >>

\* select!: rpcs.recv() yields a message (hist.last_event keeps it until the
\* iteration ends).
RpcRecv ==
    /\ pc = "select"
    /\ last_gc' = {}
    /\ rpcs # << >>
    /\ rpcs' = Tail(rpcs)
    /\ LET subscription == Head(rpcs)
       IN CASE subscription.kind = "Instrument" ->
                 /\ agg' = add_instrument_subscription(agg, subscription.watch, chan)
                 /\ chan' = Restrict(
                              add_instrument_subscription_chans(agg, subscription.watch,
                                                                chan),
                              LiveWatches(agg', rpcs'))
                 /\ owed' = Restrict(owed, LiveWatches(agg', rpcs') \cap DOMAIN owed)
                 /\ pc' = "drain"
            [] subscription.kind = "TaskDetail" ->
                 /\ agg' = add_task_detail_subscription(agg, subscription)
                 /\ chan' = add_task_detail_subscription_chans(agg, subscription,
                                                                chan)
                 /\ pc' = "drain"
                 /\ UNCHANGED owed
            [] OTHER ->
                 /\ pc' = "done"
                 /\ UNCHANGED << agg, chan, owed >>
    /\ should_send' = FALSE
    /\ hist' = [ hist EXCEPT !.last_event = Head(rpcs) ]
    /\ UNCHANGED << events, events_closed, rpcs_closed, prod, applied, spans, current_spans, inside, triggered, notify_permit,
                    dropped, clock, sends, subs, last_update,
                     table, yielded, calls >>

\* select!: rpcs.recv() yields None, the control channel is closed.
RpcClosed ==
    /\ pc = "select"
    /\ rpcs = << >>
    /\ rpcs_closed
    /\ pc' = "done"
    /\ UNCHANGED << agg, should_send, events, events_closed, rpcs, rpcs_closed, prod, applied, spans, current_spans, inside,
                    triggered, notify_permit, dropped, clock, chan,
                    sends, subs, hist, last_update, last_gc, owed, table, yielded,
                    calls >>

\* The drain loop takes one buffered event and applies it (`log`: the history
\* `applied` is kept).
DrainEventLog(log) ==
    /\ pc = "drain"
    /\ events # << >>
    /\ events' = Tail(events)
    /\ applied' = IF log THEN Append(applied, Head(events)) ELSE applied
    /\ \E overflow_checks \in BOOLEAN :
         IF update_state_panics(agg, Head(events), overflow_checks)
         THEN /\ pc' = "panicked"
              /\ UNCHANGED << agg, owed, last_update >>
         ELSE /\ agg' = update_state(agg, Head(events))
              /\ owed' = [ w \in DOMAIN owed |->
                             IF w \in Range(agg.watchers)
                             THEN OwedAfterWrite(owed[w], Written(agg, agg'))
                             ELSE owed[w] ]
              /\ last_update' = [ last_update EXCEPT !.events_since = TRUE ]
              /\ UNCHANGED pc
    /\ UNCHANGED << should_send, events_closed, rpcs, rpcs_closed, prod, triggered,
                    notify_permit, dropped, clock, chan, sends, subs,
                    hist, last_gc, table, yielded, calls, spans, current_spans,
                    inside >>

DrainEvent == DrainEventLog(FALSE)

\* Variant: the closed event channel ends the drain loop only, not run.
DrainClosed_goes_on ==
    /\ pc = "drain"
    /\ events = << >>
    /\ events_closed
    /\ pc' = "cleanup"
    /\ UNCHANGED << agg, should_send, events, events_closed, rpcs, rpcs_closed, prod, applied, spans, current_spans, inside,
                    triggered, notify_permit, dropped, clock, chan,
                    sends, subs, hist, last_update, last_gc, owed, table, yielded,
                    calls >>

\* The drain loop finds the event channel closed and empty.
DrainClosed ==
    /\ pc = "drain"
    /\ events = << >>
    /\ events_closed
    /\ pc' = "done"
    /\ UNCHANGED << agg, should_send, events, events_closed, rpcs, rpcs_closed, prod, applied, spans, current_spans, inside,
                    triggered, notify_permit, dropped, clock, chan,
                    sends, subs, hist, last_update, last_gc, owed, table, yielded,
                    calls >>

\* Variant: publish runs on every publish tick, watched or not.
Publish_unwatched ==
    /\ pc = "drain"
    /\ events = << >>
    /\ ~ events_closed
    /\ should_send
    /\ agg' = publish(agg, chan)
    /\ chan' = Restrict(publish_chans(agg, chan), LiveWatches(agg', rpcs))
    /\ last_update' =
         [ tag          |-> "published",
           update       |-> publish_update(agg, clock),
           registered   |-> Range(agg.watchers),
           accepting    |-> { w \in Range(agg.watchers) : Watch_can_accept(chan[w]) },
           delivered    |-> [ w \in Range(agg.watchers) |->
                                publish_chans(agg, chan)[w].len - chan[w].len ],
           owed         |-> Restrict(owed, Range(agg.watchers)),
           details      |-> DetailsBefore(agg, chan),
           quiet        |-> last_update.tag = "published" /\ ~ last_update.events_since,
           events_since |-> FALSE ]
    /\ owed' = [ w \in LiveWatches(agg', rpcs) \cap DOMAIN owed |->
                   IF w \in Range(agg'.watchers) THEN {} ELSE owed[w] ]
    /\ pc' = "cleanup"
    /\ UNCHANGED << should_send, events, events_closed, rpcs, rpcs_closed, prod, applied, spans, current_spans, inside, triggered,
                    notify_permit, dropped, clock, sends, subs, hist,
                    last_gc, table, yielded, calls >>

\* Variant: publish does not wait for the drain loop to empty the queue.
Publish_undrained ==
    /\ pc = "drain"
    /\ ~ events_closed
    /\ agg.watchers # << >> /\ should_send
    /\ agg' = publish(agg, chan)
    /\ chan' = Restrict(publish_chans(agg, chan), LiveWatches(agg', rpcs))
    /\ last_update' =
         [ tag          |-> "published",
           update       |-> publish_update(agg, clock),
           registered   |-> Range(agg.watchers),
           accepting    |-> { w \in Range(agg.watchers) : Watch_can_accept(chan[w]) },
           delivered    |-> [ w \in Range(agg.watchers) |->
                                publish_chans(agg, chan)[w].len - chan[w].len ],
           owed         |-> Restrict(owed, Range(agg.watchers)),
           details      |-> DetailsBefore(agg, chan),
           quiet        |-> last_update.tag = "published" /\ ~ last_update.events_since,
           events_since |-> FALSE ]
    /\ owed' = [ w \in LiveWatches(agg', rpcs) \cap DOMAIN owed |->
                   IF w \in Range(agg'.watchers) THEN {} ELSE owed[w] ]
    /\ pc' = "cleanup"
    /\ UNCHANGED << should_send, events, events_closed, rpcs, rpcs_closed, prod, applied, spans, current_spans, inside, triggered,
                    notify_permit, dropped, clock, sends, subs, hist,
                    last_gc, table, yielded, calls >>

\* The drain loop finds the channel empty; there are watchers and this is a
\* publish tick: publish().
Publish ==
    /\ pc = "drain"
    /\ events = << >>
    /\ ~ events_closed
    /\ agg.watchers # << >> /\ should_send
    /\ agg' = publish(agg, chan)
    /\ chan' = Restrict(publish_chans(agg, chan), LiveWatches(agg', rpcs))
    /\ last_update' =
         [ tag          |-> "published",
           update       |-> publish_update(agg, clock),
           registered   |-> Range(agg.watchers),
           accepting    |-> { w \in Range(agg.watchers) : Watch_can_accept(chan[w]) },
           delivered    |-> [ w \in Range(agg.watchers) |->
                                publish_chans(agg, chan)[w].len - chan[w].len ],
           owed         |-> Restrict(owed, Range(agg.watchers)),
           details      |-> DetailsBefore(agg, chan),
           quiet        |-> last_update.tag = "published" /\ ~ last_update.events_since,
           events_since |-> FALSE ]
    /\ owed' = [ w \in LiveWatches(agg', rpcs) \cap DOMAIN owed |->
                   IF w \in Range(agg'.watchers) THEN {} ELSE owed[w] ]
    /\ pc' = "cleanup"
    /\ UNCHANGED << should_send, events, events_closed, rpcs, rpcs_closed, prod, applied, spans, current_spans, inside, triggered,
                    notify_permit, dropped, clock, sends, subs, hist,
                    last_gc, table, yielded, calls >>

\* self.cleanup_closed() ends the iteration: after publish, or straight from
\* the drained loop when there are no watchers or this is not a publish tick.
CleanupClosed ==
    /\ \/ pc = "cleanup"
       \/ /\ pc = "drain"
          /\ events = << >>
          /\ ~ events_closed
          /\ ~ (agg.watchers # << >> /\ should_send)
    /\ agg' = cleanup_closed(agg, clock)
    /\ last_gc' = Dropped(agg, agg', clock)
    /\ last_update' = [ NoUpdate EXCEPT !.tag = last_update.tag,
                                        !.events_since = last_update.events_since ]
    /\ should_send' = FALSE
    /\ pc' = "select"
    /\ hist' = [ hist EXCEPT !.last_event = [ kind |-> "none" ] ]
    /\ UNCHANGED << events, events_closed, rpcs, rpcs_closed, prod, applied, spans, current_spans, inside, triggered,
                    notify_permit, dropped, clock, chan, sends, subs,
                    owed, table, yielded, calls >>

Next ==
    \/ Produce
    \/ ClockAdvance
    \/ WatchUpdates
    \/ ClientRecv
    \/ ClientClose
    \/ PublishTick
    \/ FlushNotified
    \/ RpcRecv
    \/ DrainEvent
    \/ Publish
    \/ CleanupClosed

Spec == Init /\ [][Next]_vars

(* ------------------------------ SpecPoll ------------------------------- *)

\* The events of SpecPoll: any of these kinds, for any id, with any timestamp.
Timestamps == 0 .. MaxAt

PollEvents ==
    { [ kind |-> "Spawn", id |-> id, metadata |-> "m", at |-> at ] :
        id \in Ids, at \in Timestamps }
    \cup
    { [ kind |-> k, id |-> id, at |-> at ] :
        k \in { "Enter", "Exit" }, id \in Ids, at \in Timestamps }
    \cup
    { [ kind |-> "PollOp", metadata |-> "m", at |-> at, resource_id |-> id,
        op_name |-> "op", async_op_id |-> id, task_id |-> id, readiness |-> r ] :
        id \in Ids, at \in Timestamps, r \in { "Pending", "Ready" } }

\* The task's PollStats before the event, when the event is for a present task.
TaskPollStats(self, id) == self.task_stats[id].data.poll_stats

RunAfter(self, r, event) ==
    CASE event.kind = "Enter" /\ TaskPollStats(self, event.id).current_polls = 0 ->
           [ on |-> TRUE, n |-> 1, m |-> 0,
             polls0 |-> TaskPollStats(self, event.id).polls ]
      [] event.kind = "Enter" /\ r.on /\ r.m = 0 -> [ r EXCEPT !.n = @ + 1 ]
      [] event.kind = "Exit" /\ r.on /\ r.m < r.n -> [ r EXCEPT !.m = @ + 1 ]
      [] OTHER -> NoRun

ScenarioAfter(self, sc, event) ==
    CASE event.kind = "Enter" /\ TaskPollStats(self, event.id).current_polls = 0 ->
           [ k |-> 1, T |-> event.at,
             busy0 |-> TaskPollStats(self, event.id).busy_time ]
      [] event.kind = "Enter" /\ sc.k = 1 /\ event.at = sc.T + 1 -> [ sc EXCEPT !.k = 2 ]
      [] event.kind = "Exit" /\ sc.k = 2 /\ event.at = sc.T + 2 -> [ sc EXCEPT !.k = 3 ]
      [] event.kind = "Exit" /\ sc.k = 3 /\ event.at = sc.T + 5 -> [ sc EXCEPT !.k = 4 ]
      [] OTHER -> NoScenario

HistoryAfter(self, h, event) ==
    LET on_task == event.kind \in { "Enter", "Exit" } /\ event.id \in DOMAIN self.task_stats
    IN [ last_event |-> event,
         ops   |-> h.ops,
         outer |-> [ id \in Ids |->
                      IF event.kind = "Spawn" /\ event.id = id THEN 0
                      ELSE IF /\ on_task /\ event.kind = "Enter" /\ event.id = id
                              /\ TaskPollStats(self, id).current_polls = 0
                           THEN h.outer[id] + 1
                           ELSE h.outer[id] ],
         run   |-> [ id \in Ids |->
                      IF event.kind = "Spawn" /\ event.id = id THEN NoRun
                      ELSE IF on_task /\ event.id = id
                           THEN RunAfter(self, h.run[id], event)
                           ELSE h.run[id] ],
         scen  |-> [ id \in Ids |->
                      IF event.kind = "Spawn" /\ event.id = id THEN NoScenario
                      ELSE IF on_task /\ event.id = id
                           THEN ScenarioAfter(self, h.scen[id], event)
                           ELSE h.scen[id] ] ]

InitPoll ==
    /\ InitCommon
    /\ pc = "apply"

\* update_state is applied to one more event.
Apply ==
    /\ pc = "apply"
    /\ calls < MaxEvents
    /\ calls' = calls + 1
    /\ \E event \in PollEvents, overflow_checks \in BOOLEAN :
         IF update_state_panics(agg, event, overflow_checks)
         THEN /\ pc' = "panicked"
              /\ hist' = [ hist EXCEPT !.last_event = event ]
              /\ UNCHANGED agg
         ELSE /\ agg' = update_state(agg, event)
              /\ hist' = HistoryAfter(agg, hist, event)
              /\ UNCHANGED pc
    /\ UNCHANGED << should_send, events, events_closed, rpcs, rpcs_closed, prod, applied, spans, current_spans, inside, triggered,
                    notify_permit, dropped, clock, chan, sends, subs, last_update,
                    last_gc, owed, table, yielded >>

NextPoll == Apply

SpecPoll == InitPoll /\ [][NextPoll]_vars

(* ----------------------------- SpecIdData ------------------------------ *)

\* One IdData<T> table driven through its whole interface by an arbitrary
\* caller.  `yielded[id]` counts the times since_last_update has yielded the
\* entry since it was last written.
TableIds == 1 .. (MaxId + 1)

TableData == 0 .. MaxTime

InitIdData ==
    /\ InitCommon
    /\ pc = "table"

TableFrame ==
    UNCHANGED << agg, pc, should_send, events, events_closed, rpcs, rpcs_closed, prod, applied, spans, current_spans, inside,
                 triggered, notify_permit, dropped, clock, chan, sends, subs,
                 last_update, last_gc, owed >>

\* hist.last_event keeps the last call: its name, its id and what it wrote
\* through the handle, and the entry it found.
TableCalled(name, id, data) ==
    hist' = [ hist EXCEPT !.last_event =
                [ kind |-> name, id |-> id, data |-> data,
                  found |-> id \in DOMAIN table,
                  old |-> IF id \in DOMAIN table THEN table[id]
                          ELSE [ data |-> None, dirty |-> FALSE ] ] ]

TableCall ==
    /\ pc = "table"
    /\ calls < MaxCalls
    /\ calls' = calls + 1
    /\ TableFrame

WrittenEntry(id) ==
    [ i \in DOMAIN yielded \cup {id} |-> IF i = id THEN 0 ELSE yielded[i] ]

\* IdData::insert
TableInsert ==
    /\ TableCall
    /\ \E id \in TableIds, data \in TableData :
         /\ table' = insert(table, id, data)
         /\ yielded' = WrittenEntry(id)
         /\ TableCalled("insert", id, data)

\* IdData::update, the handle written through (or not) and released.
TableUpdate ==
    /\ TableCall
    /\ \E id \in TableIds :
         IF update(table, id)
         THEN \E data \in TableData :
                /\ table' = Updating(table, id, data)
                /\ yielded' = WrittenEntry(id)
                /\ TableCalled("update", id, data)
         ELSE /\ TableCalled("update", id, None)
              /\ UNCHANGED << table, yielded >>

\* IdData::update_or_default, the handle written through (or not) and released.
TableUpdateOrDefault ==
    /\ TableCall
    /\ \E id \in TableIds :
         LET entry == update_or_default(table, id, 0)
         IN \E data \in { entry[id].data } \cup TableData :
              /\ table' = Updating(entry, id, data)
              /\ yielded' = WrittenEntry(id)
              /\ TableCalled("update_or_default", id, data)

\* IdData::since_last_update, the iterator run to its end.
TableSinceLastUpdate ==
    /\ TableCall
    /\ table' = since_last_update(table)
    /\ yielded' = [ id \in DOMAIN yielded |->
                      IF id \in since_last_update_ids(table)
                      THEN yielded[id] + 1 ELSE yielded[id] ]
    /\ TableCalled("since_last_update", None, None)

\* IdData::get, IdData::all and IdData::as_proto(Include::All): reads.
TableRead ==
    /\ TableCall
    /\ \E id \in TableIds :
         /\ get(table, id) \in TableData \cup { None }
         /\ TableCalled("read", id, get(table, id))
    /\ all(table) = DOMAIN table
    /\ table' = as_proto_after(table, "All")
    /\ UNCHANGED yielded

NextIdData ==
    \/ TableInsert
    \/ TableUpdate
    \/ TableUpdateOrDefault
    \/ TableSinceLastUpdate
    \/ TableRead

SpecIdData == InitIdData /\ [][NextIdData]_vars

(* ------------------------- IdData: dirty tracking ---------------------- *)

\* C6: since_last_update yields an entry only if its dirty bit is set and
\* clears the bit as it yields, so between one write (insert or a released
\* update handle) and the next write an entry is yielded at most once: in every
\* state an entry has been yielded at most once since its last write, and an
\* entry whose bit is set has not been yielded since that write.
C6_YieldedAtMostOncePerWrite ==
    \A id \in DOMAIN table :
        /\ yielded[id] <= 1
        /\ table[id].dirty => yielded[id] = 0
        /\ \A i \in DOMAIN table : ~since_last_update(table)[i].dirty

\* An entry was written, yielded once, and since_last_update has run again
\* without yielding it a second time.
C6_Witness ==
    /\ pc = "table"
    /\ \E id \in DOMAIN table : yielded[id] = 1 /\ ~table[id].dirty
    /\ calls >= 3

(* -------------------- cleanup_closed: what is dropped ------------------ *)

\* A step of the run loop that is cleanup_closed ending an iteration.
CleanupStep == pc # "select" /\ pc' = "select"

\* C1: drop_closed, called from cleanup_closed, never removes a closed stats
\* entry while the entry's dirty bit is set and at least one instrument watcher
\* is registered, however long ago the entity closed.
C1_DirtyWatchedEntryKept ==
    \A d \in last_gc : ~ (d.dirty /\ d.has_watchers)

\* C2: an entity whose Close was applied while an instrument watcher is
\* registered, the watcher accepting updates, stays in its stats table until an
\* InstrumentUpdate has carried its closed stats to that watcher, whichever
\* wakes the loop takes: no closed entry still owed to a registered, accepting
\* watcher is missing from the stats table.
C2_ClosedStatsDeliveredBeforeRemoval ==
    \A w \in Range(agg.watchers) :
        Watch_can_accept(chan[w]) =>
            \A x \in owed[w] : x[3] => x[2] \in DOMAIN StatsOf(agg, x[1])

\* C3: cleanup_closed never removes a closed entity while closed_for = now -
\* closed_at is at most the retention period, whatever its dirty bit and whether
\* or not a watcher is registered.
C3_KeptForRetention ==
    \A d \in last_gc : d.closed_for > Retention

\* C4: a closed entity with now > closed_at + retention is removed from its
\* stats table and from its static table by the next cleanup_closed whenever no
\* watcher is registered or its dirty bit is clear.
C4_ExpiredEntryRemoved ==
    [][ CleanupStep =>
          \A kind \in Kinds : \A id \in DOMAIN StatsOf(agg, kind) :
              LET entry == StatsOf(agg, kind)[id]
              IN ( /\ closed_at(entry.data) # None
                   /\ clock > closed_at(entry.data) + Retention
                   /\ (agg.watchers = << >> \/ ~ entry.dirty) )
                 => /\ id \notin DOMAIN StatsOf(agg', kind)
                    /\ id \notin DOMAIN StaticOf(agg', kind) ]_vars

\* cleanup_closed has just dropped an expired entity that was clean or unwatched,
\* from both tables.
C4_Witness ==
    \E d \in last_gc :
        /\ d.closed_for > Retention
        /\ (~ d.has_watchers \/ ~ d.dirty)
        /\ d.static_gone

(* ------------------------------ publish -------------------------------- *)

\* The ids a published InstrumentUpdate carries stats for, and static records for.
UpdateStatsIds(u, kind) ==
    CASE kind = "task"     -> DOMAIN u.task_update.stats_update
      [] kind = "resource" -> DOMAIN u.resource_update.stats_update
      [] kind = "async_op" -> DOMAIN u.async_op_update.stats_update

UpdateStaticIds(u, kind) ==
    CASE kind = "task"     -> { t.id : t \in u.task_update.new_tasks }
      [] kind = "resource" -> { r.id : r \in u.resource_update.new_resources }
      [] kind = "async_op" -> { a.id : a \in u.async_op_update.new_async_ops }

\* C5: in each publish every instrument watcher registered before it whose
\* channel can accept a message receives exactly one InstrumentUpdate, which
\* contains every entity (stats, and static record where that was written)
\* dirtied since the previous publish or since the watcher's snapshot; a watcher
\* is sent no more than one update per publish.
C5_PublishCarriesEveryDirtiedEntity ==
    (pc = "cleanup" /\ last_update.tag = "published") =>
        /\ \A w \in last_update.accepting :
              /\ last_update.delivered[w] = 1
              /\ \A x \in last_update.owed[w] :
                    /\ x[2] \in UpdateStatsIds(last_update.update, x[1])
                    /\ x[4] => x[2] \in UpdateStaticIds(last_update.update, x[1])
        /\ \A w \in last_update.registered : last_update.delivered[w] <= 1

\* C7: when publish runs twice with no event applied in between, the second
\* InstrumentUpdate has empty new_tasks, new_resources and new_async_ops, empty
\* stats_update maps, empty new_poll_ops and no new_metadata.
C7_SecondPublishIsEmpty ==
    (pc = "cleanup" /\ last_update.tag = "published" /\ last_update.quiet) =>
        LET u == last_update.update
        IN /\ u.task_update.new_tasks = {}
           /\ u.resource_update.new_resources = {}
           /\ u.async_op_update.new_async_ops = {}
           /\ \A kind \in Kinds : UpdateStatsIds(u, kind) = {}
           /\ u.resource_update.new_poll_ops = << >>
           /\ u.new_metadata = << >>

\* A second publish with no event since the first, the first having carried
\* something (the tables are not empty).
C7_Witness ==
    /\ pc = "cleanup"
    /\ last_update.tag = "published"
    /\ last_update.quiet
    /\ \E kind \in Kinds : DOMAIN StatsOf(agg, kind) # {}

(* ----------------------------- poll stats ------------------------------ *)

\* C8: for every task, after any sequence of events, poll_stats.polls equals
\* the number of outermost Enter events applied for it, that is Enter events
\* applied while its current_polls was 0.
C8_PollsCountsOutermostEnters ==
    \A id \in DOMAIN agg.task_stats :
        TaskPollStats(agg, id).polls = hist.outer[id]

\* A task has been entered twice, the second time while already being polled.
C8_Witness ==
    /\ pc = "apply"
    /\ \E id \in DOMAIN agg.task_stats :
          /\ TaskPollStats(agg, id).current_polls = 2
          /\ hist.outer[id] = 1

\* C9: starting from current_polls = 0, n >= 1 Enter events followed by n Exit
\* events for the same span leave current_polls = 0 and polls increased by
\* exactly 1, not by n.
C9_NestedEntersCountOnce ==
    \A id \in DOMAIN agg.task_stats :
        LET r == hist.run[id]
        IN (r.on /\ r.m = r.n) =>
              /\ TaskPollStats(agg, id).current_polls = 0
              /\ TaskPollStats(agg, id).polls = r.polls0 + 1

\* Two Enters then two Exits have been applied to a task.
C9_Witness ==
    /\ pc = "apply"
    /\ \E id \in DOMAIN agg.task_stats :
          hist.run[id].on /\ hist.run[id].n = 2 /\ hist.run[id].m = 2

\* C10: busy_time changes only when an Exit event takes current_polls from 1
\* to 0, and then grows by exactly (exit timestamp - last_poll_started); Enter
\* events and nested Exit events leave it unchanged, so Enter(T), Enter(T+1),
\* Exit(T+2), Exit(T+5) adds 5 to busy_time.  (A Spawn for an id already in the
\* table replaces the task's stats by fresh ones; that is a new task.)
C10_BusyTimeAccruesOnOutermostExit ==
    /\ [][ (pc = "apply" /\ pc' = "apply") =>
             \A id \in DOMAIN agg.task_stats :
                 LET e == hist'.last_event
                     p == TaskPollStats(agg, id)
                 IN IF e.kind = "Spawn" /\ e.id = id
                    THEN TRUE
                    ELSE IF e.kind = "Exit" /\ e.id = id /\ p.current_polls = 1
                         THEN /\ TaskPollStats(agg', id).current_polls = 0
                              /\ TaskPollStats(agg', id).busy_time =
                                    p.busy_time + (e.at - p.last_poll_started)
                         ELSE TaskPollStats(agg', id).busy_time = p.busy_time ]_vars
    /\ [](\A id \in DOMAIN agg.task_stats :
             hist.scen[id].k = 4 =>
                 TaskPollStats(agg, id).busy_time = hist.scen[id].busy0 + 5)

\* Enter(T), Enter(T+1), Exit(T+2), Exit(T+5) have been applied to a fresh task,
\* whose busy_time is now 5.
C10_Witness ==
    /\ pc = "apply"
    /\ \E id \in DOMAIN agg.task_stats :
          /\ hist.scen[id].k = 4
          /\ hist.scen[id].busy0 = 0
          /\ TaskPollStats(agg, id).busy_time = 5

(* ------------------------------ SpecLife ------------------------------- *)

\* The events of SpecLife: creation, Close and Waker events for any id, the
\* creation events of a span with either of two callsite metadata, the
\* Close and Waker events with any timestamp of the wall clock's range.
Metadatas == { "m", "n" }

LifeEvents ==
    { [ kind |-> "Spawn", id |-> id, metadata |-> m, at |-> 0 ] :
        id \in Ids, m \in Metadatas }
    \cup
    { [ kind |-> "Resource", id |-> id, metadata |-> m, at |-> 0,
        concrete_type |-> "t", kind_tag |-> "k" ] : id \in Ids, m \in Metadatas }
    \cup
    { [ kind |-> "AsyncResourceOp", id |-> id, metadata |-> m, at |-> 0,
        source |-> "s" ] : id \in Ids, m \in Metadatas }
    \cup
    { [ kind |-> "Close", id |-> id, at |-> at ] : id \in Ids, at \in 0 .. MaxTime }
    \cup
    { [ kind |-> "Waker", id |-> id, op |-> op, at |-> at ] :
        id \in Ids, op \in WakeOps, at \in 0 .. MaxTime }

LifeHistoryAfter(self, h, event) ==
    [ h EXCEPT
        !.last_event = event,
        !.ops = [ id \in Ids |->
                    IF event.kind = "Spawn" /\ event.id = id THEN NoOps
                    ELSE IF /\ event.kind = "Waker" /\ event.id = id
                            /\ id \in DOMAIN self.task_stats
                         THEN [ @[id] EXCEPT ![event.op] = @ + 1 ]
                         ELSE @[id] ] ]

InitLife ==
    /\ InitCommon
    /\ pc = "life"

\* update_state is applied to one more event.
ApplyLife ==
    /\ pc = "life"
    /\ calls < MaxLifeEvents
    /\ calls' = calls + 1
    /\ \E event \in LifeEvents, overflow_checks \in BOOLEAN :
         IF update_state_panics(agg, event, overflow_checks)
         THEN /\ pc' = "panicked"
              /\ hist' = [ hist EXCEPT !.last_event = event ]
              /\ UNCHANGED agg
         ELSE /\ agg' = update_state(agg, event)
              /\ hist' = LifeHistoryAfter(agg, hist, event)
              /\ UNCHANGED pc
    /\ UNCHANGED << should_send, events, events_closed, rpcs, rpcs_closed, prod, applied, spans, current_spans, inside, triggered,
                    notify_permit, dropped, clock, chan, sends, subs, last_update,
                    last_gc, owed, table, yielded >>

NextLife == ApplyLife

SpecLife == InitLife /\ [][NextLife]_vars

(* ------------------------------ SpecFlush ------------------------------ *)

\* Several producer threads inside ConsoleLayer::send and Flush::trigger, one
\* atomic operation per step, against the run loop of the aggregator with its
\* flush branch in two steps (the notification taken, then triggered stored);
\* no client subscribes, and a client may call Server::pause.
FlushEvents ==
    { [ counter |-> "tasks",
        event |-> [ kind |-> "Spawn", id |-> id, metadata |-> "m", at |-> 0 ] ] :
        id \in Ids }
    \cup
    { [ counter |-> "resources",
        event |-> [ kind |-> "Resource", id |-> id, metadata |-> "m", at |-> 0,
                    concrete_type |-> "t", kind_tag |-> "k" ] ] : id \in Ids }
    \cup
    { [ counter |-> "async_ops",
        event |-> [ kind |-> "AsyncResourceOp", id |-> id, metadata |-> "m",
                    at |-> 0, source |-> "s" ] ] : id \in Ids }

InitFlush ==
    /\ InitCommon
    /\ pc = "select"

FlushFrame ==
    UNCHANGED << agg, events_closed, rpcs_closed, clock, chan, subs, hist,
                 last_update, owed, table, yielded, calls, applied, spans,
                 current_spans, inside >>

\* send: self.tx.try_reserve() and permit.send(event) or dropped.fetch_add(1).
SendReserve(p) ==
    /\ prod[p] = "idle"
    /\ sends < MaxFlushSends
    /\ sends' = sends + 1
    /\ \E e \in FlushEvents : send_try_reserve(e.counter, e.event)
    /\ prod' = [ prod EXCEPT ![p] = "capacity" ]
    /\ FlushFrame
    /\ UNCHANGED << pc, should_send, rpcs, triggered, notify_permit, last_gc >>

\* send: self.tx.capacity() is read and compared with flush_under_capacity.
SendCapacity(p) ==
    /\ prod[p] = "capacity"
    /\ prod' = [ prod EXCEPT ![p] =
                   IF EventBufferCapacity - Len(events) <= flush_under_capacity
                   THEN "cas" ELSE "idle" ]
    /\ FlushFrame
    /\ UNCHANGED << pc, should_send, events, rpcs, triggered, notify_permit, dropped,
                    sends, last_gc >>

\* Variant: the flag is set and the notify issued whatever the flag was.
TriggerCasBlind(p) ==
    /\ prod[p] = "cas"
    /\ triggered' = TRUE
    /\ prod' = [ prod EXCEPT ![p] = "notify" ]
    /\ FlushFrame
    /\ UNCHANGED << pc, should_send, events, rpcs, notify_permit, dropped, sends,
                    last_gc >>

\* Flush::trigger: triggered.compare_exchange(false, true).
TriggerCas(p) ==
    /\ prod[p] = "cas"
    /\ IF ~ triggered
       THEN triggered' = TRUE /\ prod' = [ prod EXCEPT ![p] = "notify" ]
       ELSE UNCHANGED triggered /\ prod' = [ prod EXCEPT ![p] = "idle" ]
    /\ FlushFrame
    /\ UNCHANGED << pc, should_send, events, rpcs, notify_permit, dropped, sends,
                    last_gc >>

\* Flush::trigger: should_flush.notify_one() (the notification is stored until
\* the aggregator's notified() takes it).
TriggerNotify(p) ==
    /\ prod[p] = "notify"
    /\ notify_permit' = TRUE
    /\ prod' = [ prod EXCEPT ![p] = "idle" ]
    /\ FlushFrame
    /\ UNCHANGED << pc, should_send, events, rpcs, triggered, dropped, sends, last_gc >>

\* select!: should_flush.notified() completes.
FlushWake ==
    /\ pc = "select"
    /\ notify_permit
    /\ notify_permit' = FALSE
    /\ last_gc' = {}
    /\ pc' = "store"
    /\ FlushFrame
    /\ UNCHANGED << should_send, events, rpcs, triggered, dropped, sends, prod >>

\* The flush branch: triggered.store(false), and the select! yields false.
FlushStore ==
    /\ pc = "store"
    /\ triggered' = FALSE
    /\ should_send' = FALSE
    /\ pc' = "drain"
    /\ FlushFrame
    /\ UNCHANGED << events, rpcs, notify_permit, dropped, sends, last_gc, prod >>

\* Server::pause / Server::resume: the command is sent on the control channel.
ServerPause ==
    /\ ~ AggregatorGone
    /\ ~ rpcs_closed
    /\ rpcs = << >>
    /\ \E kind \in { "Pause", "Resume" } : rpcs' = << [ kind |-> kind ] >>
    /\ FlushFrame
    /\ UNCHANGED << pc, should_send, events, triggered, notify_permit, dropped, sends,
                    last_gc, prod >>

NextFlush ==
    \/ \E p \in Producers : SendReserve(p)
    \/ \E p \in Producers : SendCapacity(p)
    \/ \E p \in Producers : TriggerCas(p)
    \/ \E p \in Producers : TriggerNotify(p)
    \/ ServerPause
    \/ PublishTick
    \/ FlushWake
    \/ FlushStore
    \/ RpcRecv
    \/ DrainEvent
    \/ CleanupClosed

\* The scheduling of the code: a producer inside send() goes on to its end; the
\* run loop goes on; the publish interval keeps ticking; select! polls its
\* branches in random order, so a branch ready at infinitely many selects is
\* taken.
FlushFairness ==
    /\ \A p \in Producers :
          WF_vars(SendCapacity(p) \/ TriggerCas(p) \/ TriggerNotify(p))
    /\ WF_vars(PublishTick \/ FlushStore \/ DrainEvent \/ CleanupClosed)
    /\ SF_vars(FlushWake)
    /\ SF_vars(RpcRecv)

SpecFlush == InitFlush /\ [][NextFlush]_vars /\ FlushFairness

(* ------------------------------- SpecRun ------------------------------- *)

\* The run loop with every way it is woken and every way it ends: clients
\* subscribe to updates and to task details, pause and resume; the producers
\* and the Server are dropped.  No client reads its stream, and the wall clock
\* stands still.
TaskDetailIds == 1 .. (MaxId + 1)

\* Server::watch_task_details: a WatchRequest travels to the aggregator in a
\* Command::WatchTaskDetail.  stream_alive: the caller still awaits the one-shot
\* when the aggregator answers; rx_alive: it still holds the receiver it was
\* handed when the first TaskDetails is sent.  `max`: the subscriptions of
\* either kind made so far are fewer.
WatchTaskDetailsUpTo(max) ==
    /\ subs < max
    /\ ~ rpcs_closed
    /\ ~ AggregatorGone
    /\ subs' = subs + 1
    /\ \E id \in TaskDetailIds, stream_alive \in BOOLEAN, rx_alive \in BOOLEAN :
          /\ rx_alive => stream_alive
          /\ rpcs' = Append(rpcs, [ kind |-> "TaskDetail", id |-> id, watch |-> subs + 1,
                                 buffer |-> ClientBufferCapacity,
                                 stream_alive |-> stream_alive,
                                 rx_alive |-> rx_alive ])
    /\ UNCHANGED << agg, pc, should_send, events, events_closed, rpcs_closed, prod, applied, spans, current_spans, inside,
                    triggered, notify_permit, dropped, clock, chan, sends,
                    hist, last_update, last_gc, owed, table, yielded, calls >>

WatchTaskDetails == WatchTaskDetailsUpTo(MaxWatch)

NextRun ==
    \/ Produce
    \/ ProducersDrop
    \/ WatchUpdates
    \/ WatchTaskDetails
    \/ ServerPause
    \/ ServerDrop
    \/ PublishTick
    \/ FlushNotified
    \/ RpcRecv
    \/ RpcClosed
    \/ DrainEvent
    \/ DrainClosed
    \/ Publish
    \/ CleanupClosed

\* The run loop goes on, the publish interval keeps ticking, and select! polls
\* its ready branches in random order.
RunFairness ==
    /\ WF_vars(PublishTick \/ DrainEvent \/ DrainClosed \/ Publish \/ CleanupClosed)
    /\ SF_vars(FlushNotified)
    /\ SF_vars(RpcRecv)
    /\ SF_vars(RpcClosed)

SpecRun == Init /\ [][NextRun]_vars /\ RunFairness

(* ------------------------------ SpecStop ------------------------------- *)

\* The run loop up to its end: producers emit events and are dropped, clients
\* subscribe to updates and the Server is dropped.  No client reads its stream
\* or sends another command, and the wall clock stands still.
NextStop ==
    \/ Produce
    \/ ProducersDrop
    \/ WatchUpdates
    \/ ServerDrop
    \/ PublishTick
    \/ FlushNotified
    \/ RpcRecv
    \/ RpcClosed
    \/ DrainEvent
    \/ DrainClosed
    \/ Publish
    \/ CleanupClosed

SpecStop == Init /\ [][NextStop]_vars /\ RunFairness

(* ----------------------------- SpecDetails ----------------------------- *)

\* The run loop with clients that subscribe to updates and to task details and
\* read their streams: up to MaxDetailWatch subscriptions in all.
WatchTaskDetailsMore == WatchTaskDetailsUpTo(MaxDetailWatch)

NextDetails ==
    \/ Produce
    \/ WatchUpdates
    \/ WatchTaskDetailsMore
    \/ ClientRecv
    \/ PublishTick
    \/ FlushNotified
    \/ RpcRecv
    \/ DrainEvent
    \/ Publish
    \/ CleanupClosed

SpecDetails == Init /\ [][NextDetails]_vars

(* ------------------------------ SpecOrder ------------------------------ *)

\* Several producers send task events while the run loop drains them.  Each
\* event carries in `src` the producer that submitted it and the number of the
\* send() call (history only: update_state does not read it), and `applied`
\* lists the events handed to update_state.
OrderEvents(p, n) ==
    { [ kind |-> "Spawn", id |-> id, metadata |-> "m", at |-> 0, src |-> << p, n >> ] :
        id \in Ids }
    \cup
    { [ kind |-> "Close", id |-> id, at |-> 0, src |-> << p, n >> ] : id \in Ids }

ProduceBy(p) ==
    /\ sends < MaxFlushSends
    /\ sends' = sends + 1
    /\ \E e \in OrderEvents(p, sends + 1) : send("tasks", e)
    /\ UNCHANGED << agg, pc, should_send, events_closed, rpcs, rpcs_closed, prod, applied, spans, current_spans, inside,
                    clock, chan, subs, hist, last_update, last_gc, owed,
                    table, yielded, calls >>

DrainLogged == DrainEventLog(TRUE)

NextOrder ==
    \/ \E p \in Producers : ProduceBy(p)
    \/ PublishTick
    \/ FlushNotified
    \/ DrainLogged
    \/ CleanupClosed

SpecOrder == Init /\ [][NextOrder]_vars

(* ------------------------------ SpecLayer ------------------------------ *)

\* The ConsoleLayer's span callbacks, called by the registry on the threads
\* that run instrumented code, in front of the event channel and a run loop
\* that drains it.  `spans` holds the spans that exist, each with the kind of
\* its callsite and whether its extensions carry the Tracked marker; `inside[t]`
\* is the spans thread t has entered and not yet exited; `current_spans[t]` is
\* the layer's thread-local SpanStack of t, not created until on_enter does.
SpanIds == 1 .. (MaxId + 1)

SpanKinds == { "Spawn", "Resource", "AsyncResourceOp", "Other" }

\* SpanStack::push: an id already on the stack is pushed as a duplicate.
SpanStack_push(stack, id) ==
    Append(stack, [ id |-> id, duplicate |-> \E i \in DOMAIN stack : stack[i].id = id ])

\* SpanStack::pop finds the last entry of the id, if there is one.
SpanStack_find(stack, id) ==
    IF \E i \in DOMAIN stack : stack[i].id = id
    THEN CHOOSE i \in DOMAIN stack :
           /\ stack[i].id = id
           /\ \A j \in DOMAIN stack : stack[j].id = id => j <= i
    ELSE 0

\* SpanStack::pop, the stack it leaves: the entry found is removed.
SpanStack_pop(stack, id) ==
    LET idx == SpanStack_find(stack, id)
    IN IF idx = 0 THEN stack
       ELSE SubSeq(stack, 1, idx - 1) \o SubSeq(stack, idx + 1, Len(stack))

\* SpanStack::pop, the values it may return: false when the id is not on the
\* stack, true when a first entry was removed, either when a duplicate was.
SpanStack_popped(stack, id) ==
    LET idx == SpanStack_find(stack, id)
    IN IF idx = 0 THEN { FALSE }
       ELSE IF stack[idx].duplicate THEN BOOLEAN ELSE { TRUE }

\* ThreadLocal::get_or_default
get_or_default(local) == [ local EXCEPT !.created = TRUE ]

\* Variant: every span that exists counts as tracked.
is_id_tracked_exists(id) == id \in DOMAIN spans

\* ConsoleLayer::is_id_tracked: the span exists and has the Tracked extension.
is_id_tracked(id) == id \in DOMAIN spans /\ spans[id].tracked

is_id_resource(id) == id \in DOMAIN spans /\ spans[id].kind = "Resource"

\* ConsoleLayer::first_entered: the innermost entry of the stack that satisfies
\* the predicate (`p`: the ids that satisfy it), None when there is none.
first_entered(stack, p) ==
    IF \E i \in DOMAIN stack : stack[i].id \in p
    THEN stack[CHOOSE i \in DOMAIN stack :
                 /\ stack[i].id \in p
                 /\ \A j \in DOMAIN stack : stack[j].id \in p => j <= i].id
    ELSE None

\* ConsoleLayer::send, its result: try_reserve gave a permit.
send_sent == ~ AggregatorGone /\ Len(events) < EventBufferCapacity

\* No event is sent.
send_nothing == UNCHANGED << events, dropped, triggered, notify_permit >>

LayerCall ==
    /\ calls < MaxLayerCalls
    /\ calls' = calls + 1
    /\ UNCHANGED << agg, pc, should_send, events_closed, rpcs, rpcs_closed, prod, applied,
                    clock, chan, sends, subs, last_update, last_gc, owed,
                    table, yielded >>

\* hist.last_event keeps the last callback and whether it sent its event.
LayerCalled(name, t, id, sent) ==
    hist' = [ hist EXCEPT !.last_event =
                [ kind |-> name, thread |-> t, id |-> id, sent |-> sent,
                  tracked |-> is_id_tracked(id) ] ]

\* Layer::on_new_span for a new span of a callsite of the given kind; `result`:
\* the visitor of a resource or async-op span finds the fields it needs.
on_new_span(t, id, kind, result) ==
    LET resource_id == IF current_spans[t].created
                       THEN first_entered(current_spans[t].stack,
                                          { i \in SpanIds : is_id_resource(i) })
                       ELSE None
        event ==
          CASE kind = "Spawn" ->
                 [ kind |-> "Spawn", id |-> id, metadata |-> "m", at |-> clock ]
            [] kind = "Resource" ->
                 [ kind |-> "Resource", id |-> id, metadata |-> "m", at |-> clock,
                   concrete_type |-> "t", kind_tag |-> "k" ]
            [] OTHER ->
                 [ kind |-> "AsyncResourceOp", id |-> id, metadata |-> "m",
                   at |-> clock, source |-> "s" ]
        counter ==
          CASE kind = "Spawn" -> "tasks"
            [] kind = "Resource" -> "resources"
            [] OTHER -> "async_ops"
        sends_event ==
          \/ kind = "Spawn"
          \/ kind = "Resource" /\ result
          \/ kind = "AsyncResourceOp" /\ result /\ resource_id # None
        sent == sends_event /\ send_sent
    IN /\ IF sends_event THEN send(counter, event) ELSE send_nothing
       /\ spans' = [ i \in DOMAIN spans \cup { id } |->
                       IF i = id THEN [ kind |-> kind, tracked |-> sent ] ELSE spans[i] ]
       /\ LayerCalled("on_new_span", t, id, sent)
       /\ UNCHANGED << current_spans, inside >>

OnNewSpan ==
    /\ LayerCall
    /\ \E t \in Threads, id \in SpanIds \ DOMAIN spans, kind \in SpanKinds,
          result \in BOOLEAN :
          on_new_span(t, id, kind, result)

\* Layer::on_enter
on_enter(t, id) ==
    IF ~ is_id_tracked(id)
    THEN /\ send_nothing
         /\ LayerCalled("on_enter", t, id, FALSE)
         /\ UNCHANGED current_spans
    ELSE /\ send("tasks", [ kind |-> "Enter", id |-> id, at |-> clock ])
         /\ LayerCalled("on_enter", t, id, send_sent)
         /\ IF send_sent
            THEN current_spans' =
                   [ current_spans EXCEPT
                       ![t] = [ get_or_default(@) EXCEPT
                                  !.stack = SpanStack_push(@, id) ] ]
            ELSE UNCHANGED current_spans

\* A thread enters a span that exists.
OnEnter ==
    /\ LayerCall
    /\ \E t \in Threads, id \in DOMAIN spans :
          /\ inside' = [ inside EXCEPT ![t] = Append(@, id) ]
          /\ on_enter(t, id)
          /\ UNCHANGED spans

\* Layer::on_exit; `popped`: what SpanStack::pop returns.
on_exit(t, id, popped) ==
    IF ~ is_id_tracked(id)
    THEN /\ send_nothing
         /\ LayerCalled("on_exit", t, id, FALSE)
         /\ UNCHANGED current_spans
    ELSE /\ current_spans' =
              IF current_spans[t].created
              THEN [ current_spans EXCEPT ![t].stack = SpanStack_pop(@, id) ]
              ELSE current_spans
         /\ IF current_spans[t].created /\ ~ popped
            THEN /\ send_nothing
                 /\ LayerCalled("on_exit", t, id, FALSE)
            ELSE /\ send("tasks", [ kind |-> "Exit", id |-> id, at |-> clock ])
                 /\ LayerCalled("on_exit", t, id, send_sent)

\* A thread exits the span it entered last.
OnExit ==
    /\ LayerCall
    /\ \E t \in Threads :
          /\ inside[t] # << >>
          /\ LET id == inside[t][Len(inside[t])]
             IN /\ inside' = [ inside EXCEPT ![t] = SubSeq(@, 1, Len(@) - 1) ]
                /\ \E popped \in ( IF current_spans[t].created
                                   THEN SpanStack_popped(current_spans[t].stack, id)
                                   ELSE { FALSE } ) :
                      on_exit(t, id, popped)
                /\ UNCHANGED spans

\* Layer::on_close
on_close(t, id) ==
    IF ~ is_id_tracked(id)
    THEN /\ send_nothing
         /\ LayerCalled("on_close", t, id, FALSE)
    ELSE /\ send("tasks", [ kind |-> "Close", id |-> id, at |-> clock ])
         /\ LayerCalled("on_close", t, id, send_sent)

\* The last handle of a span that no thread is inside is dropped: the span
\* closes and leaves the registry, its extensions with it.
OnClose ==
    /\ LayerCall
    /\ \E t \in Threads, id \in DOMAIN spans :
          /\ \A u \in Threads : id \notin Range(inside[u])
          /\ on_close(t, id)
          /\ spans' = Restrict(spans, DOMAIN spans \ { id })
          /\ UNCHANGED << current_spans, inside >>

NextLayer ==
    \/ OnNewSpan
    \/ OnEnter
    \/ OnExit
    \/ OnClose
    \/ PublishTick
    \/ FlushNotified
    \/ DrainLogged
    \/ CleanupClosed

SpecLayer == Init /\ [][NextLayer]_vars

(* ------------------------------ SpecAttr ------------------------------- *)

\* update_state applied to Resource events and to StateUpdate events for
\* present and absent resources.  A value is a variant tag with a number (a
\* bool, string or debug value is one of MaxAttrValue + 1 values of its type).
ValueTypes == { "BoolVal", "StrVal", "DebugVal", "U64Val", "I64Val" }

AttrResourceIds == 1 .. (MaxId + 1)

AttrEvents ==
    { [ kind |-> "Resource", id |-> id, metadata |-> "m", at |-> 0,
        concrete_type |-> "t", kind_tag |-> "k" ] : id \in Ids }
    \cup
    { [ kind |-> "StateUpdate", resource_id |-> id, metadata |-> "m",
        update |-> [ key |-> "f", type |-> type, value |-> value, op |-> op,
                     unit |-> unit ] ] :
        id \in AttrResourceIds, type \in ValueTypes, value \in 0 .. MaxAttrValue,
        op \in { "Add", "Sub", "Ovr" }, unit \in { "b", "ms" } }

InitAttr ==
    /\ InitCommon
    /\ pc = "attr"

\* update_state is applied to one more event.
ApplyAttr ==
    /\ pc = "attr"
    /\ calls < MaxAttrEvents
    /\ calls' = calls + 1
    /\ \E event \in AttrEvents, overflow_checks \in BOOLEAN :
         /\ hist' = [ hist EXCEPT !.last_event = event ]
         /\ IF update_state_panics(agg, event, overflow_checks)
            THEN /\ pc' = "panicked"
                 /\ UNCHANGED agg
            ELSE /\ agg' = update_state(agg, event)
                 /\ UNCHANGED pc
    /\ UNCHANGED << should_send, events, events_closed, rpcs, rpcs_closed, prod, applied, spans, current_spans, inside, triggered,
                    notify_permit, dropped, clock, chan, sends, subs, last_update,
                    last_gc, owed, table, yielded >>

NextAttr == ApplyAttr

SpecAttr == InitAttr /\ [][NextAttr]_vars

(* ------------------------- poll-time histogram ------------------------- *)

\* C11: a task's poll-time histogram receives a sample only when an Exit event
\* takes the task's current_polls to 0, one sample of (exit timestamp -
\* last_poll_started) for that completed outermost poll; an Exit that leaves
\* current_polls > 0 (a nested exit) records no sample, and no other event does.
C11_SampleOnlyOnOutermostExit ==
    [][ (pc = "apply" /\ pc' = "apply") =>
          \A id \in DOMAIN agg.task_stats :
              LET e      == hist'.last_event
                  before == agg.task_stats[id].data
                  after  == agg'.task_stats[id].data
              IN IF e.kind = "Spawn" /\ e.id = id
                 THEN TRUE
                 ELSE IF /\ e.kind = "Exit" /\ e.id = id
                         /\ before.poll_stats.current_polls = 1
                      THEN after.poll_times_histogram =
                             before.poll_times_histogram
                               (+) SetToBag({ e.at - before.poll_stats.last_poll_started })
                      ELSE after.poll_times_histogram = before.poll_times_histogram
      ]_vars

\* C12: in every reachable state current_polls of every task and async op is
\* >= 0: it never underflows, and an Exit event applied at current_polls = 0
\* (an Exit with no matching Enter) does not abort the aggregator.  (A u64
\* counter that wrapped below 0 reads n - 2^64 in the model, so -1 is u64::MAX.)
C12_CurrentPollsNeverUnderflows ==
    /\ \A id \in DOMAIN agg.task_stats :
          /\ TaskPollStats(agg, id).current_polls >= 0
          /\ ~ ( /\ pc = "panicked"
                 /\ hist.last_event.kind = "Exit" /\ hist.last_event.id = id
                 /\ TaskPollStats(agg, id).current_polls = 0 )
    /\ \A id \in DOMAIN agg.async_op_stats :
          /\ agg.async_op_stats[id].data.poll_stats.current_polls >= 0
          /\ ~ ( /\ pc = "panicked"
                 /\ hist.last_event.kind = "Exit" /\ hist.last_event.id = id
                 /\ agg.async_op_stats[id].data.poll_stats.current_polls = 0 )

(* ------------------------------- wakers -------------------------------- *)

\* C13: for a task present in task_stats, after any sequence of Waker events,
\* waker_clones equals the number of Clone events applied, wakes the number of
\* Wake plus WakeByRef events applied, and waker_drops the number of Drop
\* events plus the number of by-value Wake events applied.
C13_WakerCountersCountOps ==
    \A id \in DOMAIN agg.task_stats :
        LET stats == agg.task_stats[id].data
            ops   == hist.ops[id]
        IN /\ stats.waker_clones = ops["Clone"]
           /\ stats.wakes = ops["Wake"] + ops["WakeByRef"]
           /\ stats.waker_drops = ops["Drop"] + ops["Wake"]

\* Clone, Clone, Wake, WakeByRef, Drop have been applied to a task:
\* clones = 2, drops = 2, wakes = 2.
C13_Witness ==
    /\ pc = "life"
    /\ \E id \in DOMAIN agg.task_stats :
          /\ hist.ops[id] = [ op \in WakeOps |-> IF op = "Clone" THEN 2 ELSE 1 ]
          /\ agg.task_stats[id].data.waker_clones = 2
          /\ agg.task_stats[id].data.waker_drops = 2
          /\ agg.task_stats[id].data.wakes = 2

\* C14: for every task, at every point between applied events,
\* waker_clones - waker_drops >= 0.
C14_LiveWakersNonNegative ==
    \A id \in DOMAIN agg.task_stats :
        agg.task_stats[id].data.waker_clones - agg.task_stats[id].data.waker_drops >= 0

\* C15: a Waker event applied for a task whose closed_at is already set changes
\* none of wakes, waker_clones, waker_drops and last_wake and does not set the
\* task's dirty bit; a Waker event for an id absent from task_stats creates no
\* entry.
C15_WakerAfterCloseIgnored ==
    [][ (pc = "life" /\ pc' = "life" /\ hist'.last_event.kind = "Waker") =>
          LET id == hist'.last_event.id
          IN IF id \in DOMAIN agg.task_stats
             THEN closed_at(agg.task_stats[id].data) # None =>
                    agg'.task_stats[id] = agg.task_stats[id]
             ELSE agg' = agg
      ]_vars

\* C16: closed_at of a task, resource or async op is assigned at most once: a
\* Close event for an id whose closed_at is already set leaves it unchanged.
C16_ClosedAtSetOnce ==
    [][ (pc = "life" /\ pc' = "life" /\ hist'.last_event.kind = "Close") =>
          \A kind \in Kinds :
              LET id == hist'.last_event.id
              IN ( /\ id \in DOMAIN StatsOf(agg, kind)
                   /\ closed_at(StatsOf(agg, kind)[id].data) # None )
                 => closed_at(StatsOf(agg', kind)[id].data)
                      = closed_at(StatsOf(agg, kind)[id].data)
      ]_vars

(* ------------------------------ first_poll ----------------------------- *)

\* How first_poll of one PollStats may change over one applied event: once set
\* it keeps its value; it is set by an Enter applied at current_polls = 0, to
\* that event's timestamp, or (async ops) by a Pending PollOp, and by nothing else.
FirstPollStep(p, q, e, entered, polled) ==
    /\ p.first_poll # None => q.first_poll = p.first_poll
    /\ (entered /\ p.current_polls = 0 /\ p.first_poll = None) => q.first_poll = e.at
    /\ (p.first_poll = None /\ q.first_poll # None) =>
          /\ q.first_poll = e.at
          /\ (entered /\ p.current_polls = 0) \/ polled

\* C17: for every task and async op, poll_stats.first_poll is assigned exactly
\* once, on the first transition into a poll, and no later Enter or PollOp event
\* changes its value.
C17_FirstPollSetOnce ==
    [][ (pc = "apply" /\ pc' = "apply") =>
          LET e == hist'.last_event
          IN /\ \A id \in DOMAIN agg.task_stats :
                   (e.kind = "Spawn" /\ e.id = id)
                   \/ FirstPollStep(TaskPollStats(agg, id), TaskPollStats(agg', id), e,
                                    e.kind = "Enter" /\ e.id = id, FALSE)
             /\ \A id \in DOMAIN agg.async_op_stats :
                   FirstPollStep(agg.async_op_stats[id].data.poll_stats,
                                 agg'.async_op_stats[id].data.poll_stats, e,
                                 e.kind = "Enter" /\ e.id = id,
                                 /\ e.kind = "PollOp" /\ e.async_op_id = id
                                 /\ e.readiness = "Pending")
      ]_vars

\* A task has begun a second poll at a later time and kept the first_poll of
\* the first one.
C17_Witness ==
    /\ pc = "apply"
    /\ \E id \in DOMAIN agg.task_stats :
          /\ TaskPollStats(agg, id).polls = 2
          /\ TaskPollStats(agg, id).first_poll # None
          /\ TaskPollStats(agg, id).first_poll < TaskPollStats(agg, id).last_poll_started

(* --------------------------- send and flush ---------------------------- *)

DropCounters == { "tasks", "resources", "async_ops" }

TotalDropped(d) == d["tasks"] + d["resources"] + d["async_ops"]

\* C18: one send either finds the channel closed and changes neither the queue
\* nor a drop counter, or finds the queue full, leaves it as it is and adds
\* exactly 1 to exactly one drop counter, or appends its event to the queue and
\* changes no counter; so as long as the aggregator has received nothing, the
\* sends beyond those the queue holds are exactly the drops counted.
C18_SendEnqueuesOrCountsOneDrop ==
    [][ /\ sends' = sends + 1 =>
            IF AggregatorGone
            THEN events' = events /\ dropped' = dropped
            ELSE IF Len(events) = EventBufferCapacity
                 THEN /\ events' = events
                      /\ \E c \in DropCounters :
                            dropped' = [ dropped EXCEPT ![c] = @ + 1 ]
                 ELSE /\ \E e \in FlushEvents : events' = Append(events, e.event)
                      /\ dropped' = dropped
        /\ (~ AggregatorGone' /\ agg' = Aggregator_new) =>
              TotalDropped(dropped') = sends' - Len(events')
      ]_vars

C18_Witness ==
    /\ ~ AggregatorGone
    /\ agg = Aggregator_new
    /\ Len(events) = EventBufferCapacity
    /\ sends = EventBufferCapacity + 2
    /\ TotalDropped(dropped) = 2
    /\ dropped["tasks"] = 1
    /\ dropped["resources"] = 1

\* The flush wakes outstanding: producers that won the compare-and-swap and
\* have yet to notify, the notification stored in should_flush, and the
\* aggregator inside its flush branch before triggered.store(false).
FlushWakes ==
    Cardinality({ p \in Producers : prod[p] = "notify" })
      + (IF notify_permit THEN 1 ELSE 0)
      + (IF pc = "store" THEN 1 ELSE 0)

\* C19: of the producers that call Flush::trigger concurrently while triggered
\* is false, exactly one wins the compare-and-swap and notifies: while triggered
\* is true exactly one flush wake is outstanding, and none while it is false.
C19_OneWakePerTrigger ==
    FlushWakes = (IF triggered THEN 1 ELSE 0)

C19_Witness ==
    \E p, q \in Producers :
        /\ p # q
        /\ prod[p] = "notify"
        /\ prod[q] = "cas"
        /\ triggered
        /\ ~ notify_permit
        /\ ~ AggregatorGone

\* C20: while triggered is true a flush wake is outstanding, and from every
\* state where triggered is true and the aggregator runs, the aggregator comes to
\* take the flush branch, store false into triggered and go on to drain the
\* event queue.
C20_TriggeredFlushIsHandled ==
    /\ [](triggered => FlushWakes = 1)
    /\ (triggered /\ ~ AggregatorGone) ~> (~ triggered /\ pc = "drain")

(* ------------------------------ run loop ------------------------------- *)

\* The steps of one iteration of the run loop: it is woken by the publish tick
\* (the select! consumes neither a notification nor a control message), and it
\* calls publish.
TickWake ==
    /\ pc = "select"
    /\ pc' = "drain"
    /\ rpcs' = rpcs
    /\ notify_permit' = notify_permit

PublishCall == pc = "drain" /\ pc' = "cleanup"

\* C21: should_send is true in exactly the iterations woken by the publish tick
\* and keeps its value to the end of the iteration, and publish is called only
\* where should_send is true and the watcher list is not empty: no iteration
\* woken by the flush notify or by a control message publishes.
C21_PublishOnlyOnTickWithWatchers ==
    [][ /\ (pc = "select" /\ pc' # "select") => (should_send' <=> TickWake)
        /\ (pc # "select" /\ pc' # "select") => should_send' = should_send
        /\ PublishCall => (should_send /\ agg.watchers # << >>)
      ]_vars

C21_Witness ==
    /\ pc = "drain"
    /\ events = << >>
    /\ ~ events_closed
    /\ ~ should_send
    /\ agg.watchers # << >>
    /\ last_update.tag = "published"

(* ------------------------------ watchers ------------------------------- *)

\* C22: publish keeps, in order, exactly the instrument watchers whose channel
\* accepts the update; each of those gets one more message (the one update the
\* call built), and each of the others is removed with its Sender dropped. A
\* watch that is gone (its number was issued and no Sender of it is left) never
\* comes back, so nothing is sent to it later.
C22_FailedWatcherRemovedOthersServed ==
    [][ /\ PublishCall =>
             /\ agg'.watchers =
                  SelectSeq(agg.watchers, LAMBDA w : Watch_can_accept(chan[w]))
             /\ \A w \in Range(agg.watchers) :
                   IF Watch_can_accept(chan[w])
                   THEN /\ w \in DOMAIN chan'
                        /\ chan'[w].len = chan[w].len + 1
                        /\ last_update'.delivered[w] = 1
                   ELSE /\ w \notin DOMAIN chan'
                        /\ last_update'.delivered[w] = 0
        /\ \A w \in 1 .. subs :
              w \notin LiveWatches(agg, rpcs) =>
                 /\ w \notin LiveWatches(agg', rpcs')
                 /\ w \notin DOMAIN chan'
      ]_vars

C22_Witness ==
    /\ pc = "cleanup"
    /\ last_update.tag = "published"
    /\ \E v, w \in last_update.registered :
          /\ v \in last_update.accepting
          /\ w \notin last_update.accepting
          /\ v \in Range(agg.watchers)
          /\ w \notin Range(agg.watchers)

\* The run loop handles a Command::Instrument.
InstrumentSubscribed ==
    /\ pc = "select"
    /\ pc' = "drain"
    /\ rpcs # << >>
    /\ rpcs' = Tail(rpcs)
    /\ Head(rpcs).kind = "Instrument"

\* C23: the update add_instrument_subscription builds lists every entry of the
\* three static and the three stats tables, all_metadata and all_poll_ops; the
\* call changes nothing of the aggregator but the watcher list (so no dirty bit,
\* new_metadata or new_poll_ops), to which the watch is appended exactly when
\* the send succeeded, and a failed send leaves the watcher list as it was.
C23_SnapshotIsCompleteAndReadOnly ==
    [][ InstrumentSubscribed =>
          LET u == initial_update(agg, clock)
              w == Head(rpcs).watch
          IN /\ \A kind \in Kinds :
                   /\ UpdateStatsIds(u, kind) = DOMAIN StatsOf(agg, kind)
                   /\ UpdateStaticIds(u, kind) = DOMAIN StaticOf(agg, kind)
             /\ u.new_metadata = << agg.all_metadata >>
             /\ u.resource_update.new_poll_ops = agg.all_poll_ops
             /\ [ agg' EXCEPT !.watchers = agg.watchers ] = agg
             /\ IF Watch_can_accept(chan[w])
                THEN /\ agg'.watchers = Append(agg.watchers, w)
                     /\ chan'[w].len = chan[w].len + 1
                ELSE /\ agg'.watchers = agg.watchers
                     /\ w \notin DOMAIN chan'
      ]_vars

C23_Witness ==
    /\ pc = "drain"
    /\ hist.last_event.kind = "Instrument"
    /\ agg.watchers # << >>
    /\ agg.watchers[Len(agg.watchers)] = hist.last_event.watch
    /\ chan[hist.last_event.watch].len = 1
    /\ events = << >>
    /\ rpcs = << >>
    /\ \E id \in DOMAIN agg.task_stats : ~ agg.task_stats[id].dirty
    /\ \E kind \in Kinds : \E id \in DOMAIN StatsOf(agg, kind) :
          StatsOf(agg, kind)[id].dirty

\* The run loop handles a Command::WatchTaskDetail.
TaskDetailSubscribed ==
    /\ pc = "select"
    /\ pc' = "drain"
    /\ rpcs # << >>
    /\ rpcs' = Tail(rpcs)
    /\ Head(rpcs).kind = "TaskDetail"

\* C24: a task-detail request for an id absent from task_stats changes neither
\* the aggregator nor any channel and its caller gets not-found; for an id that
\* is present nothing but details_watchers may change, and the watch is pushed
\* under that id (and no other) exactly when stream_sender.send and the first
\* TaskDetails update both succeeded, the aggregator staying as it was otherwise.
C24_TaskDetailSubscription ==
    [][ TaskDetailSubscribed =>
          LET r == Head(rpcs)
              before == IF r.id \in DOMAIN agg.details_watchers
                        THEN agg.details_watchers[r.id] ELSE << >>
          IN IF r.id \notin DOMAIN agg.task_stats
             THEN /\ agg' = agg
                  /\ chan' = chan
                  /\ watch_task_details_response(agg, r) = "not_found"
             ELSE IF r.stream_alive /\ r.rx_alive
                  THEN /\ [ agg' EXCEPT !.details_watchers = agg.details_watchers ] = agg
                       /\ DOMAIN agg'.details_watchers
                            = DOMAIN agg.details_watchers \cup { r.id }
                       /\ \A id \in DOMAIN agg'.details_watchers :
                             agg'.details_watchers[id] =
                               IF id = r.id THEN Append(before, r.watch)
                               ELSE agg.details_watchers[id]
                       /\ watch_task_details_response(agg, r) = "stream"
                  ELSE /\ agg' = agg
                       /\ chan' = chan
      ]_vars

C24_Witness ==
    /\ pc = "drain"
    /\ hist.last_event.kind = "TaskDetail"
    /\ hist.last_event.id \notin DOMAIN agg.task_stats
    /\ agg.task_stats # << >>
    /\ \E id \in DOMAIN agg.details_watchers : agg.details_watchers[id] # << >>

(* ----------------------------- termination ----------------------------- *)

\* C25: once the Server (the control channel) or the producers (the event
\* channel) are dropped, run comes to return: with the interval ticking and the
\* select! branches taken fairly the loop does not go on for ever.
C25_RunEndsAfterChannelClosed ==
    (rpcs_closed \/ events_closed) ~> AggregatorGone

C25_Witness ==
    /\ pc = "done"
    /\ events_closed
    /\ ~ rpcs_closed
    /\ events = << >>
    /\ hist.last_event.kind = "none"
    /\ agg.task_stats # << >>

\* The run loop takes a Pause or Resume command from the control channel.
PauseReceived ==
    /\ pc = "select"
    /\ rpcs # << >>
    /\ rpcs' = Tail(rpcs)
    /\ Head(rpcs).kind \in { "Pause", "Resume" }

\* C26: a Pause or Resume command taken from the control channel leaves the run
\* loop running: the iteration goes on to drain the event queue.
C26_PauseKeepsRunning ==
    [][ PauseReceived => pc' = "drain" ]_vars

\* The select! completes on the flush notification, and on the control channel.
FlushNotifyWake ==
    /\ pc = "select"
    /\ pc' = "drain"
    /\ notify_permit
    /\ ~ notify_permit'
    /\ ~ should_send'

ControlWake ==
    /\ pc = "select"
    /\ ~ should_send'
    /\ \/ rpcs # << >> /\ rpcs' = Tail(rpcs) /\ pc' \in { "drain", "done" }
       \/ rpcs = << >> /\ rpcs_closed /\ pc' = "done"

\* C27: the run loop leaves its select! only on a publish tick, a flush
\* notification or the control channel, and takes no event while doing so; its
\* drain removes the events at the head of the queue one by one and, the queue
\* found empty, is never left waiting for an event: some step of the run loop
\* is possible wherever it is draining.
C27_WokenOnlyBySelectDrainNeverWaits ==
    /\ [][ /\ (pc = "select" /\ pc' # "select") =>
                 /\ (TickWake /\ should_send') \/ FlushNotifyWake \/ ControlWake
                 /\ events' = events
           /\ (pc = "drain" /\ events' # events /\ Len(events') <= Len(events)) =>
                 /\ events # << >>
                 /\ events' = Tail(events)
                 /\ pc' \in { "drain", "panicked" }
           /\ (pc = "drain" /\ pc' \notin { "drain", "panicked" }) =>
                 /\ events = << >>
                 /\ events' = events
         ]_vars
    /\ [](pc = "drain" => ENABLED (DrainEvent \/ DrainClosed \/ Publish \/ CleanupClosed))

C27_Witness ==
    /\ pc = "drain"
    /\ ~ should_send
    /\ hist.last_event.kind = "none"
    /\ events = << >>
    /\ ~ events_closed
    /\ sends < MaxSends
    /\ agg.task_stats # << >>

(* ---------------------------- event order ------------------------------ *)

\* The events submitted and not shed, in the order the aggregator meets them:
\* those applied, then those still queued.
Received == applied \o events

\* C28: each drain step hands exactly the head of the queue to update_state and
\* removes it, so events are applied once each and in dequeue order; no event
\* occurs twice among the applied and the queued ones, every send is accounted
\* for as applied, queued or counted as dropped, and the events of one producer
\* are met in the order that producer submitted them.
C28_AppliedOnceInSubmissionOrder ==
    /\ [][ applied' # applied =>
             /\ events # << >>
             /\ events' = Tail(events)
             /\ applied' = Append(applied, Head(events))
             /\ agg' = update_state(agg, Head(events))
         ]_vars
    /\ [](/\ \A i, j \in DOMAIN Received :
                i < j =>
                   /\ Received[i].src # Received[j].src
                   /\ Received[i].src[1] = Received[j].src[1] =>
                         Received[i].src[2] < Received[j].src[2]
          /\ Len(Received) + TotalDropped(dropped) = sends)

C28_Witness ==
    /\ Len(applied) = 3
    /\ applied[1].src[1] = 1
    /\ applied[2].src[1] = 2
    /\ applied[3].src[1] = 1
    /\ Len(events) = 1
    /\ events[1].src[1] = 2

(* ----------------------------- clock skew ------------------------------ *)

\* C29: an Exit that ends a task's poll (current_polls = 1) with a timestamp
\* earlier than last_poll_started is handled with an elapsed time of zero:
\* update_state completes, the aggregator keeps running and busy_time is not
\* less than it was.
C29_SkewedExitCountsZero ==
    [][ \A id \in DOMAIN agg.task_stats :
          ( /\ pc = "apply"
            /\ calls' = calls + 1
            /\ hist'.last_event.kind = "Exit"
            /\ hist'.last_event.id = id
            /\ TaskPollStats(agg, id).current_polls = 1
            /\ TaskPollStats(agg, id).last_poll_started # None
            /\ hist'.last_event.at < TaskPollStats(agg, id).last_poll_started )
          => /\ pc' = "apply"
             /\ id \in DOMAIN agg'.task_stats
             /\ TaskPollStats(agg', id).current_polls = 0
             /\ TaskPollStats(agg', id).busy_time >= TaskPollStats(agg, id).busy_time
      ]_vars

(* ----------------------------- attributes ------------------------------ *)

\* The attributes of a resource.
Attributes(self, id) == self.resource_stats[id].data.attributes

\* C30: a StateUpdate for a resource id absent from resource_stats leaves the
\* aggregator as it was; a StateUpdate whose value has another variant than the
\* attribute stored under its key is handled to the end and leaves that
\* attribute (variant, value and unit) as it was.
C30_MismatchedStateUpdateIsNoOp ==
    [][ (pc = "attr" /\ calls' = calls + 1 /\ hist'.last_event.kind = "StateUpdate") =>
          LET e == hist'.last_event
              upd == e.update
          IN IF e.resource_id \notin DOMAIN agg.resource_stats
             THEN agg' = agg /\ pc' = "attr"
             ELSE ( /\ upd.key \in DOMAIN Attributes(agg, e.resource_id)
                    /\ Attributes(agg, e.resource_id)[upd.key].type # upd.type )
                  => /\ pc' = "attr"
                     /\ Attributes(agg', e.resource_id)[upd.key]
                          = Attributes(agg, e.resource_id)[upd.key]
      ]_vars

C30_Witness ==
    /\ pc = "attr"
    /\ hist.last_event.kind = "StateUpdate"
    /\ hist.last_event.resource_id \in DOMAIN agg.resource_stats
    /\ LET upd == hist.last_event.update
           attrs == Attributes(agg, hist.last_event.resource_id)
       IN /\ upd.key \in DOMAIN attrs
          /\ attrs[upd.key].type = "U64Val"
          /\ upd.type = "I64Val"
          /\ attrs[upd.key].value # upd.value
          /\ attrs[upd.key].unit # upd.unit

(* ------------------ stats tables and static tables --------------------- *)

C32_StaticHaveStatsEntry ==
    /\ \A kind \in Kinds :
          DOMAIN StaticOf(agg, kind) \subseteq DOMAIN StatsOf(agg, kind)
    /\ (pc = "cleanup" /\ last_update.tag = "published") =>
          \A kind \in Kinds :
              UpdateStaticIds(last_update.update, kind) \subseteq DOMAIN StatsOf(agg, kind)

\* cleanup_closed has just pruned a stats entry, and its static partner with it.
C32_Witness ==
    /\ pc = "select"
    /\ \E d \in last_gc : d.static_gone /\ d.id \notin DOMAIN StatsOf(agg, d.kind)

\* C33: a static Task, Resource or AsyncOp entry, once created by its creation
\* event, is never modified or replaced while it is in its table (nothing is
\* pruned between these events), including when a second Spawn, Resource or
\* AsyncResourceOp event arrives for an id that is still present.
C33_StaticEntryNeverReplaced ==
    [][ \A kind \in Kinds :
          \A id \in DOMAIN StaticOf(agg, kind) \cap DOMAIN StaticOf(agg', kind) :
              StaticOf(agg', kind)[id].data = StaticOf(agg, kind)[id].data ]_vars

(* ------------------------ order within an iteration -------------------- *)

\* The tables cleanup_closed prunes.
Tables(self) == [ kind \in Kinds |-> << DOMAIN StatsOf(self, kind), DOMAIN StaticOf(self, kind) >> ]

\* C34: in every loop iteration that does not terminate, the buffered events
\* are drained, each applied by update_state, until the queue is found empty,
\* and only then is publish considered; publish, when it runs, runs before
\* cleanup_closed and prunes nothing itself; and cleanup_closed runs exactly
\* once, as the step that ends the iteration, whether or not a publish happened
\* (no other step of the iteration prunes a table).
C34_DrainThenPublishThenCleanup ==
    [][ /\ (pc = "select" /\ pc' # "select") =>
              /\ pc' \in { "drain", "done" }
              /\ Tables(agg') = Tables(agg)
        /\ (pc = "drain" /\ pc' = "drain" /\ agg' # agg) =>
              /\ events # << >>
              /\ events' = Tail(events)
              /\ agg' = update_state(agg, Head(events))
        /\ PublishCall =>
              /\ events = << >>
              /\ agg.watchers # << >> /\ should_send
              /\ agg' = publish(agg, chan)
              /\ Tables(agg') = Tables(agg)
        /\ (pc = "drain" /\ pc' = "select") =>
              /\ events = << >>
              /\ ~ (agg.watchers # << >> /\ should_send)
              /\ agg' = cleanup_closed(agg, clock)
        /\ (pc = "cleanup" /\ pc' # "cleanup") =>
              /\ pc' = "select"
              /\ agg' = cleanup_closed(agg, clock)
        /\ (pc = "cleanup" /\ pc' = "cleanup") => agg' = agg
        /\ (pc = "select" /\ pc' = "select") => agg' = agg
      ]_vars

\* An iteration has published an update carrying the stats of a task that the
\* drain loop applied, and cleanup_closed is the step that is left.
C34_Witness ==
    /\ pc = "cleanup"
    /\ last_update.tag = "published"
    /\ DOMAIN last_update.update.task_update.stats_update # {}

(* ------------------- publish and the task-detail watchers -------------- *)

\* C35: during publish, a task id with registered task-detail watchers that is
\* no longer in task_stats loses its whole details_watchers entry and its
\* watchers are sent nothing; otherwise each of its watchers whose channel can
\* accept is sent one TaskDetails and is kept, in order, each watcher that
\* could not accept is sent nothing and removed, and the entry is removed when
\* no watcher remains.
C35_DetailsWatchersCompacted ==
    [][ PublishCall =>
          \A id \in DOMAIN agg.details_watchers :
              LET ws   == agg.details_watchers[id]
                  acc  == { w \in Range(ws) : Watch_can_accept(chan[w]) }
                  kept == SelectSeq(ws, LAMBDA w : w \in acc)
              IN IF id \notin DOMAIN agg.task_stats
                 THEN /\ id \notin DOMAIN agg'.details_watchers
                      /\ \A w \in Range(ws) : w \notin DOMAIN chan'
                 ELSE /\ \A w \in acc : chan'[w].len = chan[w].len + 1
                      /\ \A w \in Range(ws) \ acc : w \notin DOMAIN chan'
                      /\ IF acc = {}
                         THEN id \notin DOMAIN agg'.details_watchers
                         ELSE /\ id \in DOMAIN agg'.details_watchers
                              /\ agg'.details_watchers[id] = kept
      ]_vars

\* A publish has found a task with two task-detail watchers, one that accepted
\* its TaskDetails and one that could not, and has kept the first only.
C35_Witness ==
    /\ pc = "cleanup"
    /\ last_update.tag = "published"
    /\ \E id \in DOMAIN last_update.details :
          LET d == last_update.details[id]
          IN /\ d.found
             /\ d.accepting # {}
             /\ Range(d.watchers) \ d.accepting # {}
             /\ id \in DOMAIN agg.details_watchers
             /\ Range(agg.details_watchers[id]) = d.accepting

\* A publish has found task-detail watchers of a task that is no longer in
\* task_stats, and has removed the entry.
C35_WitnessPruned ==
    /\ pc = "cleanup"
    /\ last_update.tag = "published"
    /\ \E id \in DOMAIN last_update.details :
          /\ ~ last_update.details[id].found
          /\ id \notin DOMAIN agg.details_watchers

(* --------------------- IdData: handles and reads ----------------------- *)

\* C36: IdData::update on an existing id sets that entry's dirty bit when the
\* handle is released, even if no field was changed, and touches no other
\* entry; update on an absent id returns nothing and creates no entry; get, all
\* and as_proto(Include::All) leave the table, every dirty bit included,
\* unchanged.
C36_UpdateDirtiesReadsDoNot ==
    [][ (pc = "table" /\ calls' = calls + 1) =>
          LET call == hist'.last_event
          IN /\ (call.kind = "update" /\ call.id \in DOMAIN table) =>
                   /\ DOMAIN table' = DOMAIN table
                   /\ table'[call.id] = [ data |-> call.data, dirty |-> TRUE ]
                   /\ \A i \in DOMAIN table \ { call.id } : table'[i] = table[i]
             /\ (call.kind = "update" /\ call.id \notin DOMAIN table) =>
                   /\ ~ update(table, call.id)
                   /\ table' = table
             /\ call.kind = "read" =>
                   /\ DOMAIN table' = DOMAIN table
                   /\ \A i \in DOMAIN table : table'[i].dirty = table[i].dirty
                   /\ table' = table
      ]_vars

\* update has released a handle on a clean entry without changing its value,
\* and the entry is dirty.
C36_Witness ==
    /\ pc = "table"
    /\ hist.last_event.kind = "update"
    /\ hist.last_event.found
    /\ ~ hist.last_event.old.dirty
    /\ hist.last_event.old.data = hist.last_event.data
    /\ table[hist.last_event.id] = [ data |-> hist.last_event.data, dirty |-> TRUE ]

(* ------------------------ the producer layer --------------------------- *)

\* The number of events of a kind for an id in a sequence of events.
CountOf(log, kind, id) ==
    Cardinality({ i \in DOMAIN log : log[i].kind = kind /\ log[i].id = id })

\* C37: the producer layer enqueues an Exit event for a span only if the
\* matching Enter event was successfully enqueued, so for every id the Exit
\* events enqueued, and the Exit events the aggregator has received, never
\* outnumber the Enter events; also when an Enter was discarded because the
\* queue was full or the channel closed, and on a thread that has not yet
\* created its span stack.
C37_ExitsNeverExceedEnters ==
    \A id \in SpanIds :
        /\ CountOf(Received, "Exit", id) <= CountOf(Received, "Enter", id)
        /\ CountOf(applied, "Exit", id) <= CountOf(applied, "Enter", id)

\* The event a step enqueues, if it enqueues one.
Enqueues(e) == Len(events') = Len(events) + 1 /\ events'[Len(events')] = e

\* C38: a span carries the Tracked marker exactly when on_new_span enqueued its
\* Spawn, Resource or AsyncResourceOp event, and keeps it as it is while it
\* exists; Enter, Exit and Close events are enqueued only for spans that carry
\* the marker, so a span whose creation event was shed never produces a later
\* Enter, Exit or Close event.
C38_OnlyTrackedSpansProduceEvents ==
    [][ /\ \A id \in DOMAIN spans' \ DOMAIN spans :
              spans'[id].tracked <=>
                  \E e \in Range(events') :
                      /\ Enqueues(e)
                      /\ e.kind \in { "Spawn", "Resource", "AsyncResourceOp" }
                      /\ e.id = id
        /\ \A id \in DOMAIN spans \cap DOMAIN spans' : spans'[id] = spans[id]
        /\ \A e \in Range(events') :
              (Enqueues(e) /\ e.kind \in { "Enter", "Exit", "Close" }) =>
                  e.id \in DOMAIN spans /\ spans[e.id].tracked
      ]_vars

\* A thread has entered a task span whose Spawn event was shed: the span is
\* not tracked and no Enter was enqueued, although the queue has room again.
C38_Witness ==
    /\ hist.last_event.kind = "on_enter"
    /\ hist.last_event.id \in DOMAIN spans
    /\ spans[hist.last_event.id].kind = "Spawn"
    /\ ~ spans[hist.last_event.id].tracked
    /\ ~ AggregatorGone
    /\ Len(events) < EventBufferCapacity
    /\ CountOf(Received, "Enter", hist.last_event.id) = 0

(* ---------------------- cleanup_closed: open entities ------------------ *)

\* What drop_closed leaves of the open entries of a kind, for one choice of
\* now, retention and has_watchers: every entry with no closed_at stays in the
\* stats table, and in the static table if it was there.
OpenEntriesKept(self, kind, now, retention, has_watchers) ==
    LET stats  == StatsOf(self, kind)
        static == StaticOf(self, kind)
        open   == { id \in DOMAIN stats : closed_at(stats[id].data) = None }
    IN \/ open = {}
       \/ /\ open \subseteq DOMAIN drop_closed_stats(stats, now, retention, has_watchers)
          /\ open \cap DOMAIN static \subseteq
                DOMAIN drop_closed(static, stats, now, retention, has_watchers)

\* C39: an entity whose stats entry has no closed_at is never removed from its
\* stats table or its static table by cleanup_closed: not by the cleanup_closed
\* that ends an iteration of the run loop, and not by drop_closed applied to
\* the tables that cleanup_closed finds with any other now, any retention and
\* either watcher state.
C39_OpenEntityNeverPruned ==
    [][ CleanupStep =>
          /\ \A kind \in Kinds : \A id \in DOMAIN StatsOf(agg, kind) :
                closed_at(StatsOf(agg, kind)[id].data) = None =>
                    /\ id \in DOMAIN StatsOf(agg', kind)
                    /\ id \in DOMAIN StaticOf(agg, kind) =>
                          id \in DOMAIN StaticOf(agg', kind)
          /\ \A kind \in Kinds, now \in 0 .. (MaxTime + 1), retention \in 0 .. MaxTime,
                has_watchers \in BOOLEAN :
                OpenEntriesKept(agg, kind, now, retention, has_watchers)
      ]_vars

\* An iteration has ended, so cleanup_closed has run, with a watcher registered
\* and an open entity whose entry is dirty: the entity is still in both tables.
C39_Witness ==
    /\ pc = "select"
    /\ agg.watchers # << >>
    /\ \E kind \in Kinds : \E id \in DOMAIN StatsOf(agg, kind) :
          /\ closed_at(StatsOf(agg, kind)[id].data) = None
          /\ StatsOf(agg, kind)[id].dirty
          /\ id \in DOMAIN StaticOf(agg, kind)

\* The task-detail watchers registered with the aggregator.
DetailWatches(self) ==
    UNION { Range(self.details_watchers[id]) : id \in DOMAIN self.details_watchers }

\* C40: a registered task-detail watcher is sent a TaskDetails only by a step
\* that is publish, which runs only in an iteration woken by the publish tick
\* with at least one instrument watcher; while the instrument watcher list is
\* empty every registered task-detail watcher stays registered under its task
\* id, in its place, and receives nothing: its entry is neither updated nor
\* compacted (a new subscription for the same task is appended to it).
C40_DetailsOnlySentByPublish ==
    [][ /\ \A w \in DetailWatches(agg) :
              (w \in DOMAIN chan' /\ chan'[w].len > chan[w].len) =>
                  /\ PublishCall
                  /\ should_send
                  /\ agg.watchers # << >>
        /\ agg.watchers = << >> =>
              \A id \in DOMAIN agg.details_watchers :
                  LET ws == agg.details_watchers[id]
                  IN /\ id \in DOMAIN agg'.details_watchers
                     /\ Len(agg'.details_watchers[id]) >= Len(ws)
                     /\ SubSeq(agg'.details_watchers[id], 1, Len(ws)) = ws
                     /\ agg'.details_watchers[id] # ws => TaskDetailSubscribed
                     /\ \A w \in Range(ws) :
                           w \in DOMAIN chan' /\ chan'[w].len <= chan[w].len
      ]_vars

\* A publish tick has woken the loop and the queue is drained, but no
\* instrument watcher is registered: publish is skipped although a task-detail
\* watcher is registered whose client has read its initial message.
C40_Witness ==
    /\ pc = "drain"
    /\ should_send
    /\ events = << >>
    /\ agg.watchers = << >>
    /\ \E w \in DetailWatches(agg) : Watch_can_accept(chan[w]) /\ chan[w].len = 0

====
